---- MODULE Spec2Model ----
(***************************************************************************)
(* kubectl-kronoform: the change-tracking pipeline of                      *)
(* cmd/kubectl-kronoform/main.go.                                          *)
(*                                                                         *)
(* Text is modelled as a sequence of characters (one-character strings),   *)
(* so that trimming, tokenising, case folding and substring removal are    *)
(* computed the way the Go standard library computes them.  A rune        *)
(* outside ASCII is written by its code point, as in "U+00E9".             *)
(*                                                                         *)
(* The specifications share the variables:                                 *)
(*   Spec         the invocation flows (apply / delete / patch) against    *)
(*                the record store, one invocation at a time;              *)
(*   SpecOverlap  apply invocations that run at the same time;             *)
(*   SpecLongOutput apply invocations whose wrapped command prints a line  *)
(*                of 64 KiB;                                               *)
(*   SpecEarlier  the apply, delete and patch flows of the earlier version *)
(*                of the file (its second half);                           *)
(*   SpecAnalyze  the line loop of analyzeKubectlOutput over bounded       *)
(*                output texts and texts with a line of 64 KiB;            *)
(*   SpecName     isValidKubernetesName over bounded names;                *)
(*   SpecManifest the file loop of readManifestFiles over a small file     *)
(*                system;                                                  *)
(*   SpecShowDiff showDiff over bounded documents, the deadline of the     *)
(*                diff found passed at any reading of the clock or never;  *)
(*   SpecDiff     the diff command against a small record store;           *)
(*   SpecTimeline the timeline listing of History records;                 *)
(*   SpecArgs     the argument vectors handed to the wrapped command;      *)
(*   SpecResolve  the document loop of getActualState over bounded         *)
(*                manifests;                                               *)
(*   SpecColumns  the change columns of a timeline row over bounded        *)
(*                ResourceChange lists.                                    *)
(***************************************************************************)
EXTENDS Integers, Sequences, FiniteSets, TLC

VARIABLES
    now,          \* wall clock in seconds (time.Now().Unix())
    snapshots,    \* record store: KronoformSnapshot objects by <<namespace, name>>
    histories,    \* record store: KronoformHistory objects by <<namespace, name>>
    inv,          \* per invocation (process): position and local variables
    started,      \* number of invocations started so far
    anOutput,     \* analyzeKubectlOutput: the text being scanned
    anCursor,     \* analyzeKubectlOutput: number of lines the scanner has consumed
    anChanges,    \* analyzeKubectlOutput: local variable changes
    anHasChanges, \* analyzeKubectlOutput: local variable hasChanges
    nmName,       \* isValidKubernetesName: argument
    nmDone,       \* isValidKubernetesName: has returned
    nmResult,     \* isValidKubernetesName: returned value
    rm,           \* readManifestFiles: arguments, loop position and locals
    sd,           \* showDiff: arguments and result
    tl,           \* timeline: the listed records and the rows printed
    ka,           \* the flags of a command and the argument vector built
    dc,           \* diff <history-id>: argument, position and locals
    ga,           \* getActualState: arguments, loop position and locals
    bk            \* timeline: the change columns of one row

vars == <<now, snapshots, histories, inv, started,
          anOutput, anCursor, anChanges, anHasChanges,
          nmName, nmDone, nmResult, rm, sd, tl, ka, dc, ga, bk>>

machineVars == <<now, snapshots, histories, inv, started>>
analyzerVars == <<anOutput, anCursor, anChanges, anHasChanges>>
nameVars == <<nmName, nmDone, nmResult>>
moreVars == <<rm, sd, tl, ka, dc, ga, bk>>

-----------------------------------------------------------------------------
(* Bounds                                                                   *)

MaxNameLen == 3      \* longest short name fed to isValidKubernetesName
MaxTokens == 3       \* most tokens on the first line of an analysed text
MaxLines == 2        \* most lines of an analysed text of short lines

-----------------------------------------------------------------------------
(* Characters and the Go string functions used by the program              *)

LowerLetters == {"a", "b", "c", "d", "e", "f", "g", "h", "i", "j", "k", "l", "m",
                 "n", "o", "p", "q", "r", "s", "t", "u", "v", "w", "x", "y", "z"}

Digits == {"0", "1", "2", "3", "4", "5", "6", "7", "8", "9"}

UpperSeq == <<"A", "B", "C", "D", "E", "F", "G", "H", "I", "J", "K", "L", "M",
              "N", "O", "P", "Q", "R", "S", "T", "U", "V", "W", "X", "Y", "Z">>

LowerSeq == <<"a", "b", "c", "d", "e", "f", "g", "h", "i", "j", "k", "l", "m",
              "n", "o", "p", "q", "r", "s", "t", "u", "v", "w", "x", "y", "z">>

\* unicode.IsSpace, the white space of strings.TrimSpace and
\* strings.Fields: the six ASCII characters ("U+000B" is the vertical tab),
\* U+0085 and U+00A0 of Latin-1, and the other characters with the Unicode
\* property White_Space
WhiteSpace ==
    {"\t", "\n", "U+000B", "\f", "\r", " ", "U+0085", "U+00A0",
     "U+1680", "U+2000", "U+2001", "U+2002", "U+2003", "U+2004", "U+2005",
     "U+2006", "U+2007", "U+2008", "U+2009", "U+200A", "U+2028", "U+2029",
     "U+202F", "U+205F", "U+3000"}

\* the class \s of the regexp package: [\t\n\f\r ]
RegexpSpace == {"\t", "\n", "\f", "\r", " "}

\* number of bytes of the UTF-8 encoding of a rune
RuneLen(r) ==
    IF r \in {"U+00E9", "U+00C9", "U+0130", "U+0085", "U+00A0"} THEN 2
    ELSE IF r = "U+212A" \/ r \in WhiteSpace \ {"\t", "\n", "U+000B", "\f", "\r", " "}
    THEN 3
    ELSE 1

\* len(s) of a Go string: its length in bytes, the sum of RuneLen over
\* its runes
ByteLen(s) ==
    Len(s) + Cardinality({i \in 1..Len(s) : RuneLen(s[i]) = 2})
           + 2 * Cardinality({i \in 1..Len(s) : RuneLen(s[i]) = 3})

RECURSIVE TrimLeftSpace(_)
TrimLeftSpace(s) ==
    IF s # <<>> /\ Head(s) \in WhiteSpace THEN TrimLeftSpace(Tail(s)) ELSE s

RECURSIVE TrimRightSpace(_)
TrimRightSpace(s) ==
    IF s # <<>> /\ s[Len(s)] \in WhiteSpace
    THEN TrimRightSpace(SubSeq(s, 1, Len(s) - 1))
    ELSE s

\* strings.TrimSpace
TrimSpace(s) == TrimRightSpace(TrimLeftSpace(s))

\* the longest prefix of s without white space
TakeField(s) ==
    LET stops == {i \in 1..Len(s) : s[i] \in WhiteSpace}
    IN  IF stops = {} THEN s
        ELSE SubSeq(s, 1, (CHOOSE i \in stops : \A j \in stops : i <= j) - 1)

RECURSIVE Fields(_)
\* strings.Fields: the maximal runs of non-space characters, in order
Fields(s) ==
    LET t == TrimLeftSpace(s) IN
    IF t = <<>> THEN <<>>
    ELSE LET f == TakeField(t) IN
         <<f>> \o Fields(SubSeq(t, Len(f) + 1, Len(t)))

\* the characters of s before its first newline
TakeLine(s) ==
    LET ends == {i \in 1..Len(s) : s[i] = "\n"}
    IN  IF ends = {} THEN s
        ELSE SubSeq(s, 1, (CHOOSE i \in ends : \A j \in ends : i <= j) - 1)

\* bufio.ScanLines drops one trailing carriage return of a line
DropCR(line) ==
    IF line # <<>> /\ line[Len(line)] = "\r"
    THEN SubSeq(line, 1, Len(line) - 1)
    ELSE line

\* bufio.MaxScanTokenSize: the largest buffer a Scanner made by
\* bufio.NewScanner allocates, in bytes
MaxScanTokenSize == 65536

RECURSIVE ScanLines(_)
\* the tokens bufio.Scanner yields with its default split function: the
\* lines of the text without their terminators; a final line without a
\* newline is yielded when it is not empty.  A line of MaxScanTokenSize
\* bytes or more (a trailing carriage return counted) fills the buffer
\* before its end is seen: Scan returns false with ErrTooLong, which the
\* callers never read, and neither that line nor any later one is yielded
ScanLines(text) ==
    IF text = <<>> THEN <<>>
    ELSE LET l == TakeLine(text) IN
         IF ByteLen(l) >= MaxScanTokenSize THEN <<>>
         ELSE IF Len(l) = Len(text) THEN <<DropCR(l)>>
         ELSE <<DropCR(l)>> \o ScanLines(SubSeq(text, Len(l) + 2, Len(text)))

RECURSIVE TrimLeftChar(_, _)
TrimLeftChar(s, c) ==
    IF s # <<>> /\ Head(s) = c THEN TrimLeftChar(Tail(s), c) ELSE s

RECURSIVE TrimRightChar(_, _)
TrimRightChar(s, c) ==
    IF s # <<>> /\ s[Len(s)] = c
    THEN TrimRightChar(SubSeq(s, 1, Len(s) - 1), c)
    ELSE s

\* strings.Trim(s, c) for a cutset of the single character c
Trim(s, c) == TrimRightChar(TrimLeftChar(s, c), c)

\* unicode.ToLower on the runes of the texts: the capitals A to Z, the
\* capital E with acute accent (U+00C9), and the two runes outside ASCII
\* that lower to an ASCII letter, the capital I with dot above (U+0130)
\* and the Kelvin sign (U+212A); every other rune here has no lower case
ToLowerRune(r) ==
    IF \E i \in 1..Len(UpperSeq) : UpperSeq[i] = r
    THEN LowerSeq[CHOOSE i \in 1..Len(UpperSeq) : UpperSeq[i] = r]
    ELSE IF r = "U+00C9" THEN "U+00E9"
    ELSE IF r = "U+0130" THEN "i"
    ELSE IF r = "U+212A" THEN "k"
    ELSE r

\* strings.ToLower
ToLower(s) == [i \in 1..Len(s) |-> ToLowerRune(s[i])]

RECURSIVE Join(_, _)
\* strings.Join
Join(parts, sep) ==
    IF parts = <<>> THEN <<>>
    ELSE IF Len(parts) = 1 THEN parts[1]
    ELSE parts[1] \o sep \o Join(Tail(parts), sep)

\* strings.HasPrefix
HasPrefix(s, p) == Len(s) >= Len(p) /\ SubSeq(s, 1, Len(p)) = p

\* strings.Contains
Contains(s, w) ==
    \E i \in 1..(Len(s) - Len(w) + 1) : SubSeq(s, i, i + Len(w) - 1) = w

RECURSIVE RemoveAll(_, _)
\* strings.ReplaceAll(s, old, ""): the non-overlapping occurrences of old
\* are removed from left to right
RemoveAll(s, old) ==
    IF s = <<>> THEN <<>>
    ELSE IF HasPrefix(s, old) THEN RemoveAll(SubSeq(s, Len(old) + 1, Len(s)), old)
    ELSE <<Head(s)>> \o RemoveAll(Tail(s), old)

-----------------------------------------------------------------------------
(* isValidKubernetesName                                                    *)

MaxK8sNameLen == 253

IsLowerAlnum(r) == r \in LowerLetters \/ r \in Digits

\* one iteration of the range loop rejects the name: r is the k-th rune
\* and i its byte offset
NameLoopRejects(name, k) ==
    LET r == name[k]
        i == ByteLen(SubSeq(name, 1, k - 1))
    IN  \/ (~IsLowerAlnum(r) /\ r # "-" /\ r # ".")
        \/ (i = 0 /\ ~IsLowerAlnum(r))
        \/ (i = ByteLen(name) - 1 /\ ~IsLowerAlnum(r))

\* the length test written with >= : a name of exactly 253 bytes is refused
isValidKubernetesName_OffByOne(name) ==
    IF name = <<>> \/ ByteLen(name) >= MaxK8sNameLen THEN FALSE
    ELSE \A k \in 1..Len(name) : ~NameLoopRejects(name, k)

isValidKubernetesName(name) ==
    IF name = <<>> \/ ByteLen(name) > MaxK8sNameLen THEN FALSE
    ELSE \A k \in 1..Len(name) : ~NameLoopRejects(name, k)

-----------------------------------------------------------------------------
(* analyzeKubectlOutput                                                     *)

created == <<"c", "r", "e", "a", "t", "e", "d">>
configured == <<"c", "o", "n", "f", "i", "g", "u", "r", "e", "d">>
unchanged == <<"u", "n", "c", "h", "a", "n", "g", "e", "d">>
deleted == <<"d", "e", "l", "e", "t", "e", "d">>

Created == <<"C", "r", "e", "a", "t", "e", "d">>
Configured == <<"C", "o", "n", "f", "i", "g", "u", "r", "e", "d">>
Unchanged == <<"U", "n", "c", "h", "a", "n", "g", "e", "d">>
Deleted == <<"D", "e", "l", "e", "t", "e", "d">>

ApiGroupSuffixes ==
    << <<".", "a", "p", "p", "s">>,
       <<".", "v", "1">>,
       <<".", "b", "a", "t", "c", "h">>,
       <<".", "n", "e", "t", "w", "o", "r", "k", "i", "n", "g", ".", "k", "8", "s", ".", "i", "o">>,
       <<".", "r", "b", "a", "c", ".", "a", "u", "t", "h", "o", "r", "i", "z", "a", "t", "i", "o", "n",
         ".", "k", "8", "s", ".", "i", "o">>,
       <<".", "s", "t", "o", "r", "a", "g", "e", ".", "k", "8", "s", ".", "i", "o">>,
       <<".", "a", "p", "i", "e", "x", "t", "e", "n", "s", "i", "o", "n", "s", ".", "k", "8", "s", ".", "i", "o">> >>

RECURSIVE RemoveEach(_, _, _)
RemoveEach(resource, olds, k) ==
    IF k > Len(olds) THEN resource
    ELSE RemoveEach(RemoveAll(resource, olds[k]), olds, k + 1)

\* cleanResourceName: the seven ReplaceAll calls, in order
cleanResourceName(resource) == RemoveEach(resource, ApiGroupSuffixes, 1)

IsOperationWord(part) ==
    part = created \/ part = configured \/ part = unchanged \/ part = deleted

\* the third case of the switch: the first part that is one of the four
\* literal words is the operation; the parts before it, joined by a space,
\* are the resource (parts[0] when the word is the first part)
FindOperation(parts) ==
    IF \E i \in 1..Len(parts) : IsOperationWord(parts[i])
    THEN LET i == CHOOSE j \in 1..Len(parts) :
                      /\ IsOperationWord(parts[j])
                      /\ \A h \in 1..(j - 1) : ~IsOperationWord(parts[h])
         IN [resource  |-> IF i > 1 THEN Join(SubSeq(parts, 1, i - 1), <<" ">>)
                                    ELSE parts[1],
             operation |-> parts[i]]
    ELSE [resource |-> parts[1], operation |-> <<>>]

\* the second case of the switch: 'resource "name" deleted'
IsQuotedDelete(parts) ==
    /\ Len(parts) = 3
    /\ parts[2] = <<"\"">> \o Trim(parts[2], "\"")
    /\ parts[3] = deleted

\* the switch over the shape of the line (len(parts) >= 2)
ParseParts(parts) ==
    IF Len(parts) = 2
    THEN [resource |-> parts[1], operation |-> parts[2]]
    ELSE IF IsQuotedDelete(parts)
    THEN [resource  |-> parts[1] \o <<"/">> \o Trim(parts[2], "\""),
          operation |-> parts[3]]
    ELSE FindOperation(parts)

\* "Capitalize operation": the switch on strings.ToLower(operation)
CapitalizeOperation(operation) ==
    LET low == ToLower(operation) IN
    IF low = created THEN Created
    ELSE IF low = configured THEN Configured
    ELSE IF low = unchanged THEN Unchanged
    ELSE IF low = deleted THEN Deleted
    ELSE operation

SetsChangeFlag(operation) ==
    operation = Created \/ operation = Configured \/ operation = Deleted

\* the body of the scanner loop, applied to one scanned line
AnalyzeLine(acc, text) ==
    LET line == TrimSpace(text)
        parts == Fields(line)
    IN  IF line = <<>> THEN acc
        ELSE IF Len(parts) >= 2
        THEN LET p == ParseParts(parts) IN
             IF p.operation # <<>>
             THEN LET op == CapitalizeOperation(p.operation) IN
                  [changes    |-> Append(acc.changes,
                                         [Resource  |-> cleanResourceName(p.resource),
                                          Operation |-> op]),
                   hasChanges |-> acc.hasChanges \/ SetsChangeFlag(op)]
             ELSE acc
        ELSE acc

RECURSIVE AnalyzeFrom(_, _, _)
AnalyzeFrom(acc, lines, k) ==
    IF k > Len(lines) THEN acc
    ELSE AnalyzeFrom(AnalyzeLine(acc, lines[k]), lines, k + 1)

\* analyzeKubectlOutput: [hasChanges, changes] of an output text
analyzeKubectlOutput(output) ==
    AnalyzeFrom([changes |-> <<>>, hasChanges |-> FALSE], ScanLines(output), 1)

-----------------------------------------------------------------------------
(* getActualState                                                           *)

UpperLetters == {UpperSeq[i] : i \in 1..Len(UpperSeq)}

\* the regular expression class \w
WordChars == LowerLetters \cup UpperLetters \cup Digits \cup {"_"}

DocSeparator == <<"-", "-", "-">>
JoinSeparator == <<"\n", "-", "-", "-", "\n">>
DefaultNamespace == <<"d", "e", "f", "a", "u", "l", "t">>

KindKey == <<"k", "i", "n", "d", ":">>
NameKey == <<"n", "a", "m", "e", ":">>
NamespaceKey == <<"n", "a", "m", "e", "s", "p", "a", "c", "e", ":">>

RECURSIVE SplitOn(_, _, _)
\* strings.Split(s, sep): cur is the piece read so far
SplitOn(s, sep, cur) ==
    IF s = <<>> THEN <<cur>>
    ELSE IF HasPrefix(s, sep)
    THEN <<cur>> \o SplitOn(SubSeq(s, Len(sep) + 1, Len(s)), sep, <<>>)
    ELSE SplitOn(Tail(s), sep, Append(cur, Head(s)))

RECURSIVE TakeWord(_)
\* the longest prefix of s made of \w characters
TakeWord(s) ==
    IF s = <<>> \/ Head(s) \notin WordChars THEN <<>>
    ELSE <<Head(s)>> \o TakeWord(Tail(s))

RECURSIVE SkipRegexpSpace(_)
\* what is left of s after its longest prefix of \s characters
SkipRegexpSpace(s) ==
    IF s # <<>> /\ Head(s) \in RegexpSpace THEN SkipRegexpSpace(Tail(s)) ELSE s

RECURSIVE TakeNonSpace(_)
\* the longest prefix of s made of [^\s] characters
TakeNonSpace(s) ==
    IF s = <<>> \/ Head(s) \in RegexpSpace THEN <<>>
    ELSE <<Head(s)>> \o TakeNonSpace(Tail(s))

RECURSIVE FindSubmatch(_, _, _)
\* regexp.FindStringSubmatch for `<key>\s*(\w+)` (word = TRUE) and
\* `<key>\s*([^\s]+)` (word = FALSE): the capture group of the leftmost
\* match, <<>> when the text has no match
FindSubmatch(s, key, word) ==
    IF s = <<>> THEN <<>>
    ELSE LET rest == SkipRegexpSpace(SubSeq(s, Len(key) + 1, Len(s)))
             cap  == IF word THEN TakeWord(rest) ELSE TakeNonSpace(rest)
         IN  IF HasPrefix(s, key) /\ cap # <<>> THEN cap
             ELSE FindSubmatch(Tail(s), key, word)

\* what `kubectl get <kind> <name> -n <namespace> -o yaml` prints when it
\* succeeds: the live object, identified here by the arguments of the query
LiveState(kind, name, namespace) ==
    <<"l", "i", "v", "e", " ">> \o ToLower(kind) \o <<"/">> \o name
        \o <<" ", "-", "n", " ">> \o namespace

\* the namespace the resource is queried in
ResourceNamespace(resource, namespace) ==
    LET nsMatch == FindSubmatch(resource, NamespaceKey, FALSE)
        ns == IF nsMatch # <<>>
              THEN (IF isValidKubernetesName(nsMatch) THEN nsMatch ELSE DefaultNamespace)
              ELSE namespace
    IN  IF ns = <<>> THEN DefaultNamespace ELSE ns

\* the body of the loop, dropping the document whose query fails
ResolveDocument_SkippingFailed(raw, namespace, getOk) ==
    LET resource == TrimSpace(raw)
        kind == FindSubmatch(resource, KindKey, TRUE)
        name == FindSubmatch(resource, NameKey, FALSE)
    IN  IF resource = <<>> THEN <<>>
        ELSE IF kind = <<>> \/ name = <<>> THEN <<>>
        ELSE IF ~isValidKubernetesName(kind) \/ ~isValidKubernetesName(name) THEN <<>>
        ELSE IF getOk
             THEN <<LiveState(kind, name, ResourceNamespace(resource, namespace))>>
             ELSE <<>>

\* the body of the loop over the documents: the entry the document adds to
\* actualStates, as a sequence of zero or one texts; getOk tells whether
\* the kubectl get of this document succeeds
ResolveDocument(raw, namespace, getOk) ==
    LET resource == TrimSpace(raw)
        kind == FindSubmatch(resource, KindKey, TRUE)
        name == FindSubmatch(resource, NameKey, FALSE)
    IN  IF resource = <<>> THEN <<>>
        ELSE IF kind = <<>> \/ name = <<>> THEN <<>>
        ELSE IF ~isValidKubernetesName(kind) \/ ~isValidKubernetesName(name) THEN <<>>
        ELSE IF getOk
             THEN <<LiveState(kind, name, ResourceNamespace(resource, namespace))>>
             ELSE <<resource>>

RECURSIVE ResolveFrom(_, _, _, _)
ResolveFrom(resources, namespace, gets, k) ==
    IF k > Len(resources) THEN <<>>
    ELSE ResolveDocument(resources[k], namespace, gets[k])
             \o ResolveFrom(resources, namespace, gets, k + 1)

\* getActualState: gets[k] is the outcome of the cluster query for the
\* k-th piece of the manifest; the function never returns an error
getActualState(manifestContent, namespace, gets) ==
    Join(ResolveFrom(SplitOn(manifestContent, DocSeparator, <<>>), namespace, gets, 1),
         JoinSeparator)

\* the number of pieces strings.Split cuts the manifest into
NumDocuments(manifestContent) == Len(SplitOn(manifestContent, DocSeparator, <<>>))

-----------------------------------------------------------------------------
(* readManifestFiles                                                        *)

ParentDir == <<".", ".">>
CurrentDir == <<".">>
PathSeparator == <<"/">>

\* a slice without its last element
DropLast(out) == SubSeq(out, 1, Len(out) - 1)

RECURSIVE CleanSegments(_, _, _)
\* filepath.Clean, segment by segment: empty and "." segments are dropped,
\* ".." removes the segment before it, is dropped at the root, and is kept
\* at the start of a relative path
CleanSegments(segs, out, rooted) ==
    IF segs = <<>> THEN out
    ELSE LET seg == Head(segs)
         IN  IF seg = <<>> \/ seg = CurrentDir
             THEN CleanSegments(Tail(segs), out, rooted)
             ELSE IF seg = ParentDir
             THEN IF out # <<>> /\ out[Len(out)] # ParentDir
                  THEN CleanSegments(Tail(segs), DropLast(out), rooted)
                  ELSE IF rooted THEN CleanSegments(Tail(segs), out, rooted)
                  ELSE CleanSegments(Tail(segs), Append(out, seg), rooted)
             ELSE CleanSegments(Tail(segs), Append(out, seg), rooted)

\* filepath.IsAbs on a Unix system
IsAbs(path) == HasPrefix(path, PathSeparator)

\* filepath.Clean on a Unix system
Clean(path) ==
    LET rooted == IsAbs(path)
        out == CleanSegments(SplitOn(path, PathSeparator, <<>>), <<>>, rooted)
        cleaned == (IF rooted THEN PathSeparator ELSE <<>>) \o Join(out, PathSeparator)
    IN  IF cleaned = <<>> THEN CurrentDir ELSE cleaned

\* the separator written between the contents of two files
FileSeparator == <<"\n", "-", "-", "-", "\n">>

ConfigMapManifest ==
    <<"k", "i", "n", "d", ":", " ", "C", "o", "n", "f", "i", "g", "M", "a", "p", "\n",
      "m", "e", "t", "a", "d", "a", "t", "a", ":", "\n",
      " ", " ", "n", "a", "m", "e", ":", " ", "t", "e", "s", "t", "\n">>

\* the working directory an invocation runs in, by cleaned path: regular
\* files with their contents, and directories (os.Open succeeds on a
\* directory and io.ReadAll fails on it); every other path does not exist
FileSystem ==
    (<<"a">> :> [dir |-> FALSE, content |-> <<"a", ":", "1", "\n">>])
    @@ (<<"b">> :> [dir |-> FALSE, content |-> <<"b", ":", "2">>])
    @@ (<<"a", ".", ".", "b">> :> [dir |-> FALSE, content |-> <<"c", ":", "3", "\n">>])
    @@ (<<"e">> :> [dir |-> FALSE, content |-> <<>>])
    @@ (<<"c", "m", ".", "y", "a", "m", "l">> :> [dir |-> FALSE, content |-> ConfigMapManifest])
    @@ (<<"d">> :> [dir |-> TRUE, content |-> <<>>])
    @@ (CurrentDir :> [dir |-> TRUE, content |-> <<>>])

\* readManifestFiles before its loop: k files have been processed, opened
\* lists the paths handed to os.Open with success, content is the string
\* returned
ReadStart(filenames) ==
    [filenames |-> filenames, k |-> 0, opened |-> <<>>, allContent |-> <<>>,
     err |-> "", errFile |-> <<>>, done |-> FALSE, content |-> <<>>]

\* a failure that hands back what has been read so far
ReadFailure_Partial(f, err, filename) ==
    [f EXCEPT !.err = err, !.errFile = filename, !.done = TRUE, !.content = f.allContent]

\* `return "", fmt.Errorf(...)`
ReadFailure(f, err, filename) ==
    [f EXCEPT !.err = err, !.errFile = filename, !.done = TRUE, !.content = <<>>]

\* one iteration of the loop over the file names, or the final return
ReadFile(f) ==
    IF f.k = Len(f.filenames)
    THEN [f EXCEPT !.done = TRUE, !.content = f.allContent]
    ELSE LET filename == f.filenames[f.k + 1]
             cleanPath == Clean(filename)
         IN  IF Contains(cleanPath, ParentDir) THEN ReadFailure(f, "invalid", filename)
             ELSE IF IsAbs(cleanPath) THEN ReadFailure(f, "invalid", filename)
             ELSE IF cleanPath \notin DOMAIN FileSystem
             THEN ReadFailure(f, "open", filename)
             ELSE LET file == FileSystem[cleanPath]
                      opened == [f EXCEPT !.opened = Append(@, cleanPath)]
                  IN  IF file.dir THEN ReadFailure(opened, "read", filename)
                      ELSE [opened EXCEPT
                                !.allContent =
                                    (IF @ # <<>> THEN @ \o FileSeparator ELSE @)
                                        \o file.content,
                                !.k = @ + 1]

RECURSIVE ReadFrom(_)
ReadFrom(f) == IF f.done THEN f ELSE ReadFrom(ReadFile(f))

\* readManifestFiles: the returned content and error, with the files opened
readManifestFiles(filenames) == ReadFrom(ReadStart(filenames))

-----------------------------------------------------------------------------
(* The record store and the invocations                                     *)

NumProcs == 2        \* invocation slots (operating-system processes)
MaxTime == 2         \* the clock runs from 1 to MaxTime seconds
MaxInvocations == 2  \* invocations started in one behaviour

Procs == 1..NumProcs

\* the values of the -n flag: not given, or a namespace
Namespaces == {<<>>, <<"t", "e", "a", "m">>}

\* the values of the -f flag of an apply invocation
FilenameSamples ==
    { <<>>,
      << <<"c", "m", ".", "y", "a", "m", "l">> >>,
      << <<"e">> >>,
      << <<"c", "m", ".", "y", "a", "m", "l">>, <<"x">> >>,
      << <<".", ".", "/", "a">> >>,
      << <<"d">> >> }

\* the flags of an apply invocation
ApplyFlagSamples ==
    [dryRun : BOOLEAN, namespace : Namespaces, filenames : FilenameSamples]

\* the manifest texts readManifestFiles returns
ManifestSamples == {readManifestFiles(filenames).content : filenames \in FilenameSamples}

OnlyUnchangedOutput ==
    <<"c", "o", "n", "f", "i", "g", "m", "a", "p", "/", "t", "e", "s", "t", " ",
      "u", "n", "c", "h", "a", "n", "g", "e", "d", "\n">>

CreatedOutput ==
    <<"d", "e", "p", "l", "o", "y", "m", "e", "n", "t", ".", "a", "p", "p", "s", "/",
      "d", "e", "m", "o", " ", "c", "r", "e", "a", "t", "e", "d", "\n">>

QuotedDeleteOutput ==
    <<"p", "o", "d", " ", "\"", "x", "\"", " ", "d", "e", "l", "e", "t", "e", "d", "\n">>

\* a line of n bytes, written with one letter
LongLine(n) == [k \in 1..n |-> "x"]

\* a line the scanner cannot hold, followed by a line that reports a change
OverlongOutput == LongLine(MaxScanTokenSize) \o <<"\n">> \o CreatedOutput

\* the texts the wrapped command writes to its standard output
StdoutSamples == {<<>>, OnlyUnchangedOutput, CreatedOutput, QuotedDeleteOutput}

\* outputs around the limit of the scanner
LongStdoutSamples == {CreatedOutput, OverlongOutput}

\* a Go string that is empty, as an object name
NoName == [prefix |-> "", ts |-> 0]

\* fmt.Sprintf("kronoform-snapshot-%d", now.Unix()) and its siblings
TimedName(prefix, t) == [prefix |-> prefix, ts |-> t]

\* getTargetNamespace
getTargetNamespace(namespace) ==
    IF namespace # <<>> THEN namespace ELSE DefaultNamespace

\* client.ObjectKey{Name, Namespace: getTargetNamespace(namespace)}
ObjectKey(name, namespace) == <<getTargetNamespace(namespace), name>>

\* the zero value of KronoformSnapshot
NoSnapshot ==
    [manifests |-> <<>>, targetNamespace |-> <<>>,
     phase |-> "", appliedAt |-> 0, historyRef |-> NoName, message |-> ""]

\* the local variables of an invocation that has not started
IdleInvocation ==
    [pc |-> "idle", cmd |-> "none", dryRun |-> FALSE, client |-> FALSE,
     namespace |-> <<>>, filenames |-> <<>>, content |-> <<>>,
     manifestContent |-> <<>>, beforeState |-> <<>>,
     snapshotName |-> NoName, ran |-> FALSE, exitOk |-> FALSE, stdout |-> <<>>,
     hasChanges |-> FALSE, changes |-> <<>>, historyName |-> NoName,
     snapshot |-> NoSnapshot, historyErr |-> "", err |-> "", calls |-> <<>>]

\* one call of the store client, as the invocation issued it
StoreCall(op, kind, key, ok) == [op |-> op, kind |-> kind, key |-> key, ok |-> ok]

\* a Create that replaces the object stored under the name
CreateSucceeds_Replacing(store, key, fail) == ~fail

\* k8sClient.Create: it fails when an object of that name is stored
\* already, or for another reason (fail = TRUE)
CreateSucceeds(store, key, fail) == ~fail /\ key \notin DOMAIN store

\* sequential usage: an invocation starts when no other one is running
NoneRunning == started < MaxInvocations /\ \A q \in Procs : inv[q].pc = "idle"

MachineInit ==
    /\ now = 1
    /\ snapshots = <<>>
    /\ histories = <<>>
    /\ inv = [p \in Procs |-> IdleInvocation]
    /\ started = 0

AnalyzerIdle ==
    /\ anOutput = <<>>
    /\ anCursor = 0
    /\ anChanges = <<>>
    /\ anHasChanges = FALSE

NameIdle ==
    /\ nmName = <<>>
    /\ nmDone = FALSE
    /\ nmResult = FALSE

LoaderIdle == rm = ReadStart(<<>>)

DiffIdle == sd = "idle"

TimelineIdle == tl = "idle"

ArgsIdle == ka = "idle"

DiffCommandIdle == dc = "idle"

ResolverIdle == ga = "idle"

ColumnsIdle == bk = "idle"

MoreIdle ==
    /\ LoaderIdle /\ DiffIdle /\ TimelineIdle /\ ArgsIdle
    /\ DiffCommandIdle /\ ResolverIdle /\ ColumnsIdle

Init == MachineInit /\ AnalyzerIdle /\ NameIdle /\ MoreIdle

\* time passes
Tick ==
    /\ now < MaxTime
    /\ now' = now + 1
    /\ UNCHANGED <<snapshots, histories, inv, started, analyzerVars, nameVars, moreVars>>

\* runApply creating the Snapshot on a dry run as well
AfterReadManifest_RecordingDryRun(read, dryRun, client) ==
    IF read.err # "" THEN "done"
    ELSE IF client /\ read.content # <<>> THEN "createSnapshot" ELSE "kubectl"

\* runApply after readManifestFiles: its error is returned at once;
\* otherwise a Snapshot is created when the invocation is not a dry run,
\* the client is available and the manifest text is not empty
AfterReadManifest(read, dryRun, client) ==
    IF read.err # "" THEN "done"
    ELSE IF ~dryRun /\ client /\ read.content # <<>> THEN "createSnapshot" ELSE "kubectl"

\* runApply up to the creation of the client: the flags, the manifest
\* files and createK8sClient (client = FALSE: it returned an error)
ApplyStarts(p, flagValues) ==
    /\ \E flags \in flagValues, client \in BOOLEAN :
          LET dryRun == flags.dryRun
              namespace == flags.namespace
              filenames == flags.filenames
              read == readManifestFiles(filenames)
              next == AfterReadManifest(read, dryRun, client)
              initial == [IdleInvocation EXCEPT
                              !.cmd = "apply", !.dryRun = dryRun,
                              !.namespace = namespace,
                              !.filenames = filenames,
                              !.content = read.content]
          IN  IF read.err # ""
              THEN inv' = [inv EXCEPT ![p] =
                               [initial EXCEPT !.pc = next, !.err = "read"]]
              ELSE inv' = [inv EXCEPT ![p] =
                               [initial EXCEPT
                                    !.client = client,
                                    !.manifestContent = read.content,
                                    !.pc = next]]
    /\ started' = started + 1
    /\ UNCHANGED <<now, snapshots, histories, analyzerVars, nameVars, moreVars>>

\* an apply invocation starts when no other invocation is running
StartApply(p) == NoneRunning /\ ApplyStarts(p, ApplyFlagSamples)

\* createSnapshot returning the generated name together with the error
createSnapshotName_KeepingName(ok, snapshotName) == snapshotName

\* what createSnapshot returns as the name: the empty string with the error
\* of the Create, the generated name otherwise
createSnapshotName(ok, snapshotName) == IF ok THEN snapshotName ELSE NoName

\* runApply returning when createSnapshot fails
AfterCreateSnapshot_Aborting(ok) == IF ok THEN "kubectl" ELSE "done"

\* runApply after createSnapshot: a failure is printed as a warning and the
\* wrapped command is run in both cases
AfterCreateSnapshot(ok) == "kubectl"

\* createSnapshot, called by runApply: one Create of a Pending Snapshot
\* named after the current second (fail = TRUE: the store call fails)
CreateSnapshot(p) ==
    /\ inv[p].pc = "createSnapshot"
    /\ \E fail \in BOOLEAN :
          LET snapshotName == TimedName("kronoform-snapshot", now)
              key == ObjectKey(snapshotName, inv[p].namespace)
              snapshot == [manifests |-> inv[p].manifestContent,
                           targetNamespace |-> inv[p].namespace,
                           phase |-> "Pending", appliedAt |-> 0,
                           historyRef |-> NoName, message |-> ""]
              ok == CreateSucceeds(snapshots, key, fail)
          IN  /\ snapshots' = IF ok THEN (key :> snapshot) @@ snapshots ELSE snapshots
              /\ inv' = [inv EXCEPT
                             ![p].snapshotName = createSnapshotName(ok, snapshotName),
                             ![p].calls = Append(@, StoreCall("create", "Snapshot", key, ok)),
                             ![p].pc = AfterCreateSnapshot(ok)]
    /\ UNCHANGED <<now, started, histories, analyzerVars, nameVars, moreVars>>

\* captureCurrentState with no file and no positional argument: the header
CapturedDeleteState ==
    <<"#", " ", "C", "a", "p", "t", "u", "r", "e", "d", " ", "s", "t", "a", "t", "e", " ",
      "b", "e", "f", "o", "r", "e", " ", "d", "e", "l", "e", "t", "e", " ",
      "o", "p", "e", "r", "a", "t", "i", "o", "n", "\n">>

\* captureResourceState for the resource "pod/x"
CapturedPatchState ==
    <<"#", " ", "C", "u", "r", "r", "e", "n", "t", " ", "s", "t", "a", "t", "e", " ",
      "o", "f", " ", "r", "e", "s", "o", "u", "r", "c", "e", ":", " ",
      "p", "o", "d", "/", "x", "\n">>

\* runDelete and runPatch up to the capture of the state before the
\* command: the state is captured only when the client is available.
\* runPatch is entered with two positional arguments or more
\* (cobra.MinimumNArgs(2)), so its own check of len(args) never fails.
StartDeleteOrPatch(p) ==
    /\ NoneRunning
    /\ \E cmd \in {"delete", "patch"}, client \in BOOLEAN, namespace \in Namespaces :
          inv' = [inv EXCEPT ![p] =
                      [IdleInvocation EXCEPT
                           !.cmd = cmd, !.client = client, !.namespace = namespace,
                           !.beforeState = IF ~client THEN <<>>
                                           ELSE IF cmd = "delete" THEN CapturedDeleteState
                                           ELSE CapturedPatchState,
                           !.pc = "kubectl"]]
    /\ started' = started + 1
    /\ UNCHANGED <<now, snapshots, histories, analyzerVars, nameVars, moreVars>>

\* the condition without the analyser's flag
ApplyRecordsHistory_IgnoringChanges(i, hasChanges) ==
    ~i.dryRun /\ i.client /\ i.snapshotName # NoName

\* the condition under which runApply records a History
ApplyRecordsHistory(i, hasChanges) ==
    ~i.dryRun /\ i.client /\ i.snapshotName # NoName /\ hasChanges

\* the condition under which runDelete and runPatch record a History
DeleteRecordsHistory(i, hasChanges) ==
    i.client /\ i.beforeState # <<>> /\ hasChanges

\* runApply without the clean-up of the unused Snapshot
AfterAnalysis_NoCleanup(i, hasChanges) ==
    IF i.cmd = "apply"
    THEN (IF ~i.dryRun /\ i.client /\ i.snapshotName # NoName /\ hasChanges
          THEN "createHistory" ELSE "done")
    ELSE IF i.client /\ i.beforeState # <<>> /\ hasChanges THEN "createHistory" ELSE "done"

\* runApply discarding the Snapshot whatever the analysis says
AfterAnalysis_AlwaysCleanup(i, hasChanges) ==
    IF i.cmd = "apply"
    THEN (IF i.client /\ i.snapshotName # NoName THEN "cleanupGet" ELSE "done")
    ELSE IF i.client /\ i.beforeState # <<>> /\ hasChanges THEN "createHistory" ELSE "done"

\* where the invocation goes once the wrapped command has exited with
\* status zero and its output has been analysed
AfterAnalysis(i, hasChanges) ==
    IF i.cmd = "apply"
    THEN IF ApplyRecordsHistory(i, hasChanges) THEN "createHistory"
         ELSE IF ~hasChanges
              THEN (IF i.client /\ i.snapshotName # NoName THEN "cleanupGet" ELSE "done")
              ELSE "done"
    ELSE IF DeleteRecordsHistory(i, hasChanges) THEN "createHistory" ELSE "done"

\* the exit status of the wrapped command ignored
AfterKubectl_IgnoringExit(i, exitOk, hasChanges) ==
    IF i.cmd = "apply"
    THEN IF ~i.dryRun /\ i.client /\ i.snapshotName # NoName /\ hasChanges THEN "createHistory"
         ELSE IF ~hasChanges
              THEN (IF i.client /\ i.snapshotName # NoName THEN "cleanupGet" ELSE "done")
              ELSE "done"
    ELSE IF i.client /\ i.beforeState # <<>> /\ hasChanges THEN "createHistory" ELSE "done"

\* where the invocation goes when the wrapped command has exited: a
\* non-zero status makes the function return the error at once
AfterKubectl(i, exitOk, hasChanges) ==
    IF ~exitOk THEN "done" ELSE AfterAnalysis(i, hasChanges)

\* the name under which the History refers to its Snapshot: the Snapshot
\* created by runApply, or a name runDelete / runPatch make up from the
\* clock as they read it before they call createHistory
SnapshotRefOf(i, t) ==
    IF i.cmd = "apply" THEN i.snapshotName
    ELSE IF i.cmd = "delete" THEN TimedName("delete", t)
    ELSE TimedName("patch", t)

\* the wrapped command runs, its standard output is captured, and on a
\* zero exit status the output is analysed; a caller that goes on to
\* createHistory has the name of the Snapshot reference in hand
KubectlRuns(p, outputs) ==
    /\ inv[p].pc = "kubectl"
    /\ \E exitOk \in BOOLEAN, stdout \in outputs :
          LET ran == [inv[p] EXCEPT !.ran = TRUE, !.exitOk = exitOk, !.stdout = stdout]
              result == analyzeKubectlOutput(stdout)
              next == AfterKubectl(ran, exitOk, result.hasChanges)
          IN  IF ~exitOk
              THEN inv' = [inv EXCEPT ![p] =
                               [ran EXCEPT !.pc = next, !.err = "kubectl"]]
              ELSE inv' = [inv EXCEPT ![p] =
                               [ran EXCEPT
                                    !.hasChanges = result.hasChanges,
                                    !.changes = result.changes,
                                    !.snapshotName =
                                        IF next = "createHistory"
                                        THEN SnapshotRefOf(ran, now) ELSE @,
                                    !.pc = next]]
    /\ UNCHANGED <<now, started, snapshots, histories, analyzerVars, nameVars, moreVars>>

RunKubectl(p) == KubectlRuns(p, StdoutSamples)

\* createHistory going on to the Snapshot when the Create has failed
AfterHistoryCreate_Continuing(ok) == "historyGet"

\* createHistory after the Create of the History: its error is returned at
\* once, otherwise the Snapshot is looked up
AfterHistoryCreate(ok) == IF ok THEN "historyGet" ELSE "done"

\* createHistory up to its first store call: the manifest text is the
\* actual state (apply) or the state captured before (delete, patch), and
\* one History named after the second in which createHistory reads the
\* clock is created; the Snapshot reference is the name the caller passed
CreateHistory(p) ==
    /\ inv[p].pc = "createHistory"
    /\ \E fail \in BOOLEAN,
          gets \in [1..NumDocuments(inv[p].manifestContent) -> BOOLEAN] :
          LET i == inv[p]
              manifestContent ==
                  IF i.cmd = "apply"
                  THEN getActualState(i.manifestContent, i.namespace, gets)
                  ELSE i.beforeState
              snapshotName == i.snapshotName
              historyName == TimedName("kronoform-history", now)
              key == ObjectKey(historyName, i.namespace)
              history == [manifests |-> manifestContent,
                          snapshotRef |-> snapshotName,
                          resourceChanges |-> i.changes,
                          appliedAt |-> now,
                          summary |-> "Successfully applied manifests"]
              ok == CreateSucceeds(histories, key, fail)
          IN  /\ histories' = IF ok THEN (key :> history) @@ histories ELSE histories
              /\ inv' = [inv EXCEPT
                             ![p].historyName = historyName,
                             ![p].calls = Append(@, StoreCall("create", "History", key, ok)),
                             ![p].historyErr = IF ok THEN "" ELSE "create",
                             ![p].pc = AfterHistoryCreate(ok)]
    /\ UNCHANGED <<now, started, snapshots, analyzerVars, nameVars, moreVars>>

\* createHistory returning the error of the Get
HistoryGetOutcome_ReportingAbsence(ok) ==
    IF ok THEN [pc |-> "historyUpdate", historyErr |-> ""]
    ELSE [pc |-> "done", historyErr |-> "get"]

\* createHistory after the Get of the Snapshot: on success the Snapshot is
\* updated, on failure the function returns nil
HistoryGetOutcome(ok) ==
    IF ok THEN [pc |-> "historyUpdate", historyErr |-> ""]
    ELSE [pc |-> "done", historyErr |-> ""]

\* createHistory: the Get of the referenced Snapshot; when it fails the
\* function returns nil, otherwise the fetched object is marked Completed
HistoryGetSnapshot(p) ==
    /\ inv[p].pc = "historyGet"
    /\ \E fail \in BOOLEAN :
          LET key == ObjectKey(inv[p].snapshotName, inv[p].namespace)
              ok == ~fail /\ key \in DOMAIN snapshots
          IN  inv' = [inv EXCEPT
                          ![p].snapshot =
                              IF ok
                              THEN [snapshots[key] EXCEPT
                                        !.phase = "Completed",
                                        !.appliedAt = inv[p].historyName.ts,
                                        !.historyRef = inv[p].historyName,
                                        !.message = "Successfully applied and recorded"]
                              ELSE NoSnapshot,
                          ![p].calls = Append(@, StoreCall("get", "Snapshot", key, ok)),
                          ![p].historyErr = HistoryGetOutcome(ok).historyErr,
                          ![p].pc = HistoryGetOutcome(ok).pc]
    /\ UNCHANGED <<now, started, snapshots, histories, analyzerVars, nameVars, moreVars>>

\* Status().Update: the status of the stored object is replaced by the
\* status of the object passed
WithStatusOf(stored, obj) ==
    [stored EXCEPT !.phase = obj.phase, !.appliedAt = obj.appliedAt,
                   !.historyRef = obj.historyRef, !.message = obj.message]

\* createHistory: the status update of the Snapshot; its error is the
\* function's result, which the callers print as a warning
HistoryUpdateSnapshot(p) ==
    /\ inv[p].pc = "historyUpdate"
    /\ \E fail \in BOOLEAN :
          LET key == ObjectKey(inv[p].snapshotName, inv[p].namespace)
              ok == ~fail /\ key \in DOMAIN snapshots
          IN  /\ snapshots' = IF ok
                              THEN [snapshots EXCEPT
                                        ![key] = WithStatusOf(@, inv[p].snapshot)]
                              ELSE snapshots
              /\ inv' = [inv EXCEPT
                             ![p].calls = Append(@, StoreCall("update", "Snapshot", key, ok)),
                             ![p].historyErr = IF ok THEN "" ELSE "update",
                             ![p].pc = "done"]
    /\ UNCHANGED <<now, started, histories, analyzerVars, nameVars, moreVars>>

\* cleanupSnapshot: the Get; when it fails the function returns
CleanupGet(p) ==
    /\ inv[p].pc = "cleanupGet"
    /\ \E fail \in BOOLEAN :
          LET key == ObjectKey(inv[p].snapshotName, inv[p].namespace)
              ok == ~fail /\ key \in DOMAIN snapshots
          IN  inv' = [inv EXCEPT
                          ![p].snapshot =
                              IF ok
                              THEN [snapshots[key] EXCEPT
                                        !.phase = "NoChanges",
                                        !.message = "No changes detected, snapshot not needed"]
                              ELSE NoSnapshot,
                          ![p].calls = Append(@, StoreCall("get", "Snapshot", key, ok)),
                          ![p].pc = IF ok THEN "cleanupUpdate" ELSE "done"]
    /\ UNCHANGED <<now, started, snapshots, histories, analyzerVars, nameVars, moreVars>>

\* cleanupSnapshot returning when the status update fails
AfterCleanupUpdate_Returning(ok) == IF ok THEN "cleanupDelete" ELSE "done"

\* cleanupSnapshot after the status update: the Delete follows in both cases
AfterCleanupUpdate(ok) == "cleanupDelete"

\* cleanupSnapshot: the status update; a failure is printed and ignored
CleanupUpdate(p) ==
    /\ inv[p].pc = "cleanupUpdate"
    /\ \E fail \in BOOLEAN :
          LET key == ObjectKey(inv[p].snapshotName, inv[p].namespace)
              ok == ~fail /\ key \in DOMAIN snapshots
          IN  /\ snapshots' = IF ok
                              THEN [snapshots EXCEPT
                                        ![key] = WithStatusOf(@, inv[p].snapshot)]
                              ELSE snapshots
              /\ inv' = [inv EXCEPT
                             ![p].calls = Append(@, StoreCall("update", "Snapshot", key, ok)),
                             ![p].pc = AfterCleanupUpdate(ok)]
    /\ UNCHANGED <<now, started, histories, analyzerVars, nameVars, moreVars>>

\* cleanupSnapshot: the Delete; a failure is printed and ignored
CleanupDelete(p) ==
    /\ inv[p].pc = "cleanupDelete"
    /\ \E fail \in BOOLEAN :
          LET key == ObjectKey(inv[p].snapshotName, inv[p].namespace)
              ok == ~fail /\ key \in DOMAIN snapshots
          IN  /\ snapshots' = IF ok
                              THEN [k \in DOMAIN snapshots \ {key} |-> snapshots[k]]
                              ELSE snapshots
              /\ inv' = [inv EXCEPT
                             ![p].calls = Append(@, StoreCall("delete", "Snapshot", key, ok)),
                             ![p].pc = "done"]
    /\ UNCHANGED <<now, started, histories, analyzerVars, nameVars, moreVars>>

\* the process exits: its local variables are gone
Exit(p) ==
    /\ inv[p].pc = "done"
    /\ inv' = [inv EXCEPT ![p] = IdleInvocation]
    /\ UNCHANGED <<now, started, snapshots, histories, analyzerVars, nameVars, moreVars>>

Next ==
    \/ Tick
    \/ \E p \in Procs : StartApply(p)
    \/ \E p \in Procs : StartDeleteOrPatch(p)
    \/ \E p \in Procs : CreateSnapshot(p)
    \/ \E p \in Procs : RunKubectl(p)
    \/ \E p \in Procs : CreateHistory(p)
    \/ \E p \in Procs : HistoryGetSnapshot(p)
    \/ \E p \in Procs : HistoryUpdateSnapshot(p)
    \/ \E p \in Procs : CleanupGet(p)
    \/ \E p \in Procs : CleanupUpdate(p)
    \/ \E p \in Procs : CleanupDelete(p)
    \/ \E p \in Procs : Exit(p)

Spec == Init /\ [][Next]_vars

-----------------------------------------------------------------------------
(* Apply invocations that overlap                                           *)

\* the flags of the overlapping invocations: one manifest file, no dry run
OverlapFlagSamples ==
    [dryRun : {FALSE}, namespace : Namespaces,
     filenames : { << <<"c", "m", ".", "y", "a", "m", "l">> >> }]

\* an apply invocation starts in a free slot, whatever the other
\* invocations are doing
StartApplyOverlapping(p) ==
    /\ started < MaxInvocations
    /\ inv[p].pc = "idle"
    /\ ApplyStarts(p, OverlapFlagSamples)

NextOverlap ==
    \/ Tick
    \/ \E p \in Procs : StartApplyOverlapping(p)
    \/ \E p \in Procs : CreateSnapshot(p)
    \/ \E p \in Procs : RunKubectl(p)
    \/ \E p \in Procs : CreateHistory(p)
    \/ \E p \in Procs : HistoryGetSnapshot(p)
    \/ \E p \in Procs : HistoryUpdateSnapshot(p)
    \/ \E p \in Procs : CleanupGet(p)
    \/ \E p \in Procs : CleanupUpdate(p)
    \/ \E p \in Procs : CleanupDelete(p)
    \/ \E p \in Procs : Exit(p)

SpecOverlap == Init /\ [][NextOverlap]_vars

-----------------------------------------------------------------------------
(* Apply invocations whose wrapped command prints a line of 64 KiB          *)

\* the wrapped command prints an output around the limit of the scanner
RunKubectlLongOutput(p) == KubectlRuns(p, LongStdoutSamples)

\* an apply invocation with one manifest file, not a dry run, starts when
\* no other invocation is running
StartApplyLongOutput(p) == NoneRunning /\ ApplyStarts(p, OverlapFlagSamples)

NextLongOutput ==
    \/ Tick
    \/ \E p \in Procs : StartApplyLongOutput(p)
    \/ \E p \in Procs : CreateSnapshot(p)
    \/ \E p \in Procs : RunKubectlLongOutput(p)
    \/ \E p \in Procs : CreateHistory(p)
    \/ \E p \in Procs : HistoryGetSnapshot(p)
    \/ \E p \in Procs : HistoryUpdateSnapshot(p)
    \/ \E p \in Procs : CleanupGet(p)
    \/ \E p \in Procs : CleanupUpdate(p)
    \/ \E p \in Procs : CleanupDelete(p)
    \/ \E p \in Procs : Exit(p)

SpecLongOutput == Init /\ [][NextLongOutput]_vars

-----------------------------------------------------------------------------
(* The flows of the earlier version kept in the second half of the file.   *)
(* runDelete and runPatch capture the output of the wrapped command but do *)
(* not analyse it, and the History is written by createDeleteHistory or    *)
(* createPatchHistory, which refer to no Snapshot.  runApply analyses the  *)
(* output with a test that answers yes or no, and its createHistory stores *)
(* the manifest text as it was read, lists no resource changes, and        *)
(* returns the error of the Get of the Snapshot.  readManifestFiles,       *)
(* createSnapshot and cleanupSnapshot are the same text in both versions.  *)

\* the patch given as the second positional argument
PatchData == <<"{", "}">>

\* fmt.Sprintf("%s\n# Patch applied: %s", beforeState, patchData)
PatchedState(beforeState, patchData) ==
    beforeState
        \o <<"\n", "#", " ", "P", "a", "t", "c", "h", " ",
             "a", "p", "p", "l", "i", "e", "d", ":", " ">>
        \o patchData

\* the earlier runDelete and runPatch up to the capture of the state
\* before the command: as in the later version
StartEarlierDeleteOrPatch(p) == StartDeleteOrPatch(p)

\* the condition under which the earlier runDelete and runPatch record a
\* History: the output of the command plays no part
EarlierRecordsHistory(i) == i.client /\ i.beforeState # <<>>

\* the wrapped command runs; a non-zero status makes the function return
\* the error at once; the captured output is not read
RunKubectlEarlier(p) ==
    /\ inv[p].pc = "kubectl"
    /\ inv[p].cmd \in {"delete", "patch"}
    /\ \E exitOk \in BOOLEAN, stdout \in StdoutSamples :
          LET ran == [inv[p] EXCEPT !.ran = TRUE, !.exitOk = exitOk, !.stdout = stdout]
          IN  IF ~exitOk
              THEN inv' = [inv EXCEPT ![p] =
                               [ran EXCEPT !.pc = "done", !.err = "kubectl"]]
              ELSE inv' = [inv EXCEPT ![p] =
                               [ran EXCEPT
                                    !.pc = IF EarlierRecordsHistory(ran)
                                           THEN "createHistory" ELSE "done"]]
    /\ UNCHANGED <<now, started, snapshots, histories, analyzerVars, nameVars, moreVars>>

\* the one Create of createDeleteHistory and createPatchHistory: a History
\* named after the current second, with no Snapshot reference and no
\* resource changes; the error of the Create is the function's result
CreateEarlierHistory(p, prefix, manifests, summary) ==
    \E fail \in BOOLEAN :
        LET i == inv[p]
            historyName == TimedName(prefix, now)
            key == ObjectKey(historyName, i.namespace)
            history == [manifests |-> manifests,
                        snapshotRef |-> NoName,
                        resourceChanges |-> <<>>,
                        appliedAt |-> now,
                        summary |-> summary]
            ok == CreateSucceeds(histories, key, fail)
        IN  /\ histories' = IF ok THEN (key :> history) @@ histories ELSE histories
            /\ inv' = [inv EXCEPT
                           ![p].historyName = historyName,
                           ![p].calls = Append(@, StoreCall("create", "History", key, ok)),
                           ![p].historyErr = IF ok THEN "" ELSE "create",
                           ![p].pc = "done"]

\* createDeleteHistory, called by the earlier runDelete
CreateDeleteHistory(p) ==
    /\ inv[p].pc = "createHistory"
    /\ inv[p].cmd = "delete"
    /\ CreateEarlierHistory(p, "kronoform-delete", inv[p].beforeState,
                            "Successfully deleted resources")
    /\ UNCHANGED <<now, started, snapshots, analyzerVars, nameVars, moreVars>>

\* createPatchHistory, called by the earlier runPatch
CreatePatchHistory(p) ==
    /\ inv[p].pc = "createHistory"
    /\ inv[p].cmd = "patch"
    /\ CreateEarlierHistory(p, "kronoform-patch",
                            PatchedState(inv[p].beforeState, PatchData),
                            "Successfully patched resource")
    /\ UNCHANGED <<now, started, snapshots, analyzerVars, nameVars, moreVars>>

\* the earlier analyzeKubectlOutput: TRUE at the first line that, trimmed,
\* is not empty and contains one of the three change words
analyzeKubectlOutputEarlier(output) ==
    \E k \in 1..Len(ScanLines(output)) :
        LET line == TrimSpace(ScanLines(output)[k])
        IN  /\ line # <<>>
            /\ \/ Contains(line, created)
               \/ Contains(line, configured)
               \/ Contains(line, deleted)

\* the earlier runApply up to the creation of the client
StartEarlierApply(p) == StartApply(p)

\* the earlier createSnapshot
CreateEarlierSnapshot(p) == CreateSnapshot(p)

\* where the earlier runApply goes once the wrapped command has exited
\* with status zero and its output has been analysed
AfterEarlierAnalysis(i, hasChanges) ==
    IF ~i.dryRun /\ i.client /\ i.snapshotName # NoName /\ hasChanges
    THEN "createHistory"
    ELSE IF ~hasChanges
         THEN (IF i.client /\ i.snapshotName # NoName THEN "cleanupGet" ELSE "done")
         ELSE "done"

\* the wrapped command of the earlier runApply runs; a non-zero status
\* makes the function return the error at once, otherwise the captured
\* output is analysed
RunKubectlEarlierApply(p) ==
    /\ inv[p].pc = "kubectl"
    /\ inv[p].cmd = "apply"
    /\ \E exitOk \in BOOLEAN, stdout \in StdoutSamples :
          LET ran == [inv[p] EXCEPT !.ran = TRUE, !.exitOk = exitOk, !.stdout = stdout]
              hasChanges == analyzeKubectlOutputEarlier(stdout)
          IN  IF ~exitOk
              THEN inv' = [inv EXCEPT ![p] =
                               [ran EXCEPT !.pc = "done", !.err = "kubectl"]]
              ELSE inv' = [inv EXCEPT ![p] =
                               [ran EXCEPT
                                    !.hasChanges = hasChanges,
                                    !.pc = AfterEarlierAnalysis(ran, hasChanges)]]
    /\ UNCHANGED <<now, started, snapshots, histories, analyzerVars, nameVars, moreVars>>

\* the earlier createHistory up to its first store call: one History named
\* after the current second, holding the manifest text as it was read and
\* the name of the Snapshot, without resource changes; the error of the
\* Create is returned at once
CreateHistoryEarlier(p) ==
    /\ inv[p].pc = "createHistory"
    /\ inv[p].cmd = "apply"
    /\ \E fail \in BOOLEAN :
          LET i == inv[p]
              historyName == TimedName("kronoform-history", now)
              key == ObjectKey(historyName, i.namespace)
              history == [manifests |-> i.manifestContent,
                          snapshotRef |-> i.snapshotName,
                          resourceChanges |-> <<>>,
                          appliedAt |-> now,
                          summary |-> "Successfully applied manifests"]
              ok == CreateSucceeds(histories, key, fail)
          IN  /\ histories' = IF ok THEN (key :> history) @@ histories ELSE histories
              /\ inv' = [inv EXCEPT
                             ![p].historyName = historyName,
                             ![p].calls = Append(@, StoreCall("create", "History", key, ok)),
                             ![p].historyErr = IF ok THEN "" ELSE "create",
                             ![p].pc = IF ok THEN "historyGet" ELSE "done"]
    /\ UNCHANGED <<now, started, snapshots, analyzerVars, nameVars, moreVars>>

\* the earlier createHistory: the Get of the Snapshot; its error is
\* returned, otherwise the fetched object is marked Completed
EarlierHistoryGetSnapshot(p) ==
    /\ inv[p].pc = "historyGet"
    /\ \E fail \in BOOLEAN :
          LET key == ObjectKey(inv[p].snapshotName, inv[p].namespace)
              ok == ~fail /\ key \in DOMAIN snapshots
          IN  inv' = [inv EXCEPT
                          ![p].snapshot =
                              IF ok
                              THEN [snapshots[key] EXCEPT
                                        !.phase = "Completed",
                                        !.appliedAt = inv[p].historyName.ts,
                                        !.historyRef = inv[p].historyName,
                                        !.message = "Successfully applied and recorded"]
                              ELSE NoSnapshot,
                          ![p].calls = Append(@, StoreCall("get", "Snapshot", key, ok)),
                          ![p].historyErr = IF ok THEN "" ELSE "get",
                          ![p].pc = IF ok THEN "historyUpdate" ELSE "done"]
    /\ UNCHANGED <<now, started, snapshots, histories, analyzerVars, nameVars, moreVars>>

\* the earlier createHistory: the status update of the Snapshot
EarlierHistoryUpdateSnapshot(p) == HistoryUpdateSnapshot(p)

\* the earlier cleanupSnapshot, store call by store call
EarlierCleanupGet(p) == CleanupGet(p)

EarlierCleanupUpdate(p) == CleanupUpdate(p)

EarlierCleanupDelete(p) == CleanupDelete(p)

NextEarlier ==
    \/ Tick
    \/ \E p \in Procs : StartEarlierApply(p)
    \/ \E p \in Procs : StartEarlierDeleteOrPatch(p)
    \/ \E p \in Procs : CreateEarlierSnapshot(p)
    \/ \E p \in Procs : RunKubectlEarlierApply(p)
    \/ \E p \in Procs : RunKubectlEarlier(p)
    \/ \E p \in Procs : CreateHistoryEarlier(p)
    \/ \E p \in Procs : EarlierHistoryGetSnapshot(p)
    \/ \E p \in Procs : EarlierHistoryUpdateSnapshot(p)
    \/ \E p \in Procs : CreateDeleteHistory(p)
    \/ \E p \in Procs : CreatePatchHistory(p)
    \/ \E p \in Procs : EarlierCleanupGet(p)
    \/ \E p \in Procs : EarlierCleanupUpdate(p)
    \/ \E p \in Procs : EarlierCleanupDelete(p)
    \/ \E p \in Procs : Exit(p)

SpecEarlier == Init /\ [][NextEarlier]_vars

-----------------------------------------------------------------------------
(* The line loop of analyzeKubectlOutput over bounded texts                 *)

ResourceToken == <<"d", "e", "p", "l", "o", "y", ".", "a", "p", "p", "s", "/", "d">>
QuotedToken == <<"\"", "x", "\"">>
HalfQuotedToken == <<"\"", "x">>
OtherToken == <<"f", "o", "o">>

\* configured written with the capital I with dot above
DottedConfigured == <<"c", "o", "n", "f", "U+0130", "g", "u", "r", "e", "d">>

AnalyzerVocabulary ==
    {ResourceToken, QuotedToken, HalfQuotedToken, OtherToken,
     created, Created, configured, unchanged, deleted, DottedConfigured}

\* the lines of up to MaxTokens tokens, separated by one space
TokenLines ==
    {Join(toks, <<" ">>) :
         toks \in UNION {[1..k -> AnalyzerVocabulary] : k \in 0..MaxTokens}}

\* lines with surrounding white space, a tab and a carriage return, and
\* one written with the white space that is not in the class \s
PaddedLines ==
    { <<" ", " ", "c", "m", "/", "a", "\t", "u", "n", "c", "h", "a", "n", "g", "e", "d", " ", "\r">>,
      <<"\f", "c", "m", "/", "c", "U+00A0", "U+000B", "d", "e", "l", "e", "t", "e", "d", "U+0085", "U+2028">>,
      <<"c", "m", "/", "b", " ", "c", "o", "n", "f", "i", "g", "u", "r", "e", "d">>,
      ResourceToken \o <<" ">> \o created,
      <<" ">> }

PaddedSeqs(n) == UNION {[1..k -> PaddedLines] : k \in 0..n}

\* the analysed texts: one token line among padded lines, at most MaxLines
\* lines in all, the last one with or without its newline
AnalyzerLineSeqs ==
    UNION {{before \o <<line>> \o after :
                line \in TokenLines,
                after \in {a \in PaddedSeqs(MaxLines - 1) : Len(before) + Len(a) < MaxLines}} :
           before \in PaddedSeqs(MaxLines - 1)}

\* a line of n two-byte runes
LongAccentedLine(n) == [k \in 1..n |-> "U+00E9"]

\* texts with a line at the limit of the scanner: the longest line it
\* holds and the shortest it does not, in one-byte and in two-byte runes,
\* with a carriage return, and with recognized lines before and after
LongInputs ==
    { OverlongOutput,
      LongLine(MaxScanTokenSize - 1) \o <<"\n">> \o CreatedOutput,
      LongLine(MaxScanTokenSize - 1) \o <<"\r", "\n">> \o CreatedOutput,
      LongAccentedLine(MaxScanTokenSize \div 2) \o <<"\n">> \o CreatedOutput,
      CreatedOutput \o LongLine(MaxScanTokenSize) \o <<"\n">> \o QuotedDeleteOutput }

AnalyzerInputs ==
    {Join(lines, <<"\n">>) \o end : lines \in AnalyzerLineSeqs, end \in {<<>>, <<"\n">>}}
        \cup LongInputs

InitAnalyze ==
    /\ MachineInit
    /\ NameIdle
    /\ MoreIdle
    /\ anOutput \in AnalyzerInputs
    /\ anCursor = 0
    /\ anChanges = <<>>
    /\ anHasChanges = FALSE

\* the line the scanner yields next
CurrentLine == ScanLines(anOutput)[anCursor + 1]

\* one iteration of the loop `for scanner.Scan()`
ScanLine ==
    /\ anCursor < Len(ScanLines(anOutput))
    /\ LET acc == AnalyzeLine([changes |-> anChanges, hasChanges |-> anHasChanges],
                              CurrentLine)
       IN  /\ anChanges' = acc.changes
           /\ anHasChanges' = acc.hasChanges
    /\ anCursor' = anCursor + 1
    /\ UNCHANGED <<anOutput, machineVars, nameVars, moreVars>>

NextAnalyze == ScanLine

SpecAnalyze == InitAnalyze /\ [][NextAnalyze]_vars

-----------------------------------------------------------------------------
(* isValidKubernetesName over bounded names                                 *)

NameAlphabet == {"a", "z", "0", "9", "-", ".", "M", "_", "{", "U+00E9"}

ShortNames == UNION {[1..k -> NameAlphabet] : k \in 0..MaxNameLen}

\* names around the length limit: a run of "a" and one more rune or none
LongNames ==
    {[i \in 1..n |-> "a"] \o tail :
         n \in (MaxK8sNameLen - 2)..(MaxK8sNameLen + 1),
         tail \in UNION {[1..k -> NameAlphabet] : k \in 0..1}}

ExampleMyName ==
    <<"m", "y", "-", "n", "a", "m", "e", ".", "e", "x", "a", "m", "p", "l", "e">>
ExampleMixedCase == <<"M", "y", "_", "N", "a", "m", "e">>
ExampleLeading == <<"-", "l", "e", "a", "d", "i", "n", "g">>
ExampleTrailing == <<"t", "r", "a", "i", "l", "i", "n", "g", "-">>

NameInputs ==
    ShortNames \cup LongNames
        \cup {ExampleMyName, ExampleMixedCase, ExampleLeading, ExampleTrailing}

InitName ==
    /\ MachineInit
    /\ AnalyzerIdle
    /\ MoreIdle
    /\ nmName \in NameInputs
    /\ nmDone = FALSE
    /\ nmResult = FALSE

\* the call isValidKubernetesName(nmName) returns
ValidateName ==
    /\ ~nmDone
    /\ nmResult' = isValidKubernetesName(nmName)
    /\ nmDone' = TRUE
    /\ UNCHANGED <<nmName, machineVars, analyzerVars, moreVars>>

NextName == ValidateName

SpecName == InitName /\ [][NextName]_vars

-----------------------------------------------------------------------------
(* The file loop of readManifestFiles over bounded lists of paths           *)

MaxFiles == 3        \* most file names given to readManifestFiles

\* the paths given with -f: files, a directory, a path that does not
\* exist, a name containing two dots, and paths with "..", "." and a root
PathSamples ==
    { <<"a">>, <<"b">>, <<"e">>, <<"d">>, <<"x">>,
      <<"a", ".", ".", "b">>,
      <<".", ".", "/", "a">>,
      <<"/", "a">>,
      <<"d", "/", ".", ".", "/", "b">>,
      <<".", "/", "e">> }

FilenameLists == UNION {[1..n -> PathSamples] : n \in 0..MaxFiles}

InitManifest ==
    /\ MachineInit
    /\ AnalyzerIdle
    /\ NameIdle
    /\ DiffIdle /\ TimelineIdle /\ ArgsIdle /\ DiffCommandIdle /\ ResolverIdle /\ ColumnsIdle
    /\ rm \in {ReadStart(filenames) : filenames \in FilenameLists}

\* one iteration of the loop `for _, filename := range filenames`, or the
\* return after the last one
ReadNext ==
    /\ ~rm.done
    /\ rm' = ReadFile(rm)
    /\ UNCHANGED <<machineVars, analyzerVars, nameVars, sd, tl, ka, dc, ga, bk>>

NextManifest == ReadNext

SpecManifest == InitManifest /\ [][NextManifest]_vars

-----------------------------------------------------------------------------
(* showDiff and removeUnwantedFields                                        *)
(*                                                                         *)
(* A document text is given by its YAML structure: whether it is well      *)
(* formed, and its top-level entries in the order written, each with a     *)
(* scalar or with nested entries.  yaml.Unmarshal turns the entries into   *)
(* a map (the last entry of a key wins), yaml.Marshal writes a map with    *)
(* its keys sorted.                                                        *)

StatusField == <<"s", "t", "a", "t", "u", "s">>
MetadataField == <<"m", "e", "t", "a", "d", "a", "t", "a">>
KindField == <<"k", "i", "n", "d">>
NameField == <<"n", "a", "m", "e">>
UidField == <<"u", "i", "d">>
AnnotationsField == <<"a", "n", "n", "o", "t", "a", "t", "i", "o", "n", "s">>

\* the metadata fields removeUnwantedFields deletes
UnwantedMetadataFields ==
    { <<"c", "r", "e", "a", "t", "i", "o", "n", "T", "i", "m", "e", "s", "t", "a", "m", "p">>,
      <<"r", "e", "s", "o", "u", "r", "c", "e", "V", "e", "r", "s", "i", "o", "n">>,
      UidField,
      <<"g", "e", "n", "e", "r", "a", "t", "i", "o", "n">>,
      <<"m", "a", "n", "a", "g", "e", "d", "F", "i", "e", "l", "d", "s">>,
      AnnotationsField }

Scalar(s) == [nested |-> FALSE, scalar |-> s, fields |-> <<>>]
Nested(fields) == [nested |-> TRUE, scalar |-> <<>>, fields |-> fields]

\* the map of a list of entries: the last entry of a key gives its value
EntriesToMap(entries) ==
    [key \in {entries[k].key : k \in 1..Len(entries)} |->
        entries[CHOOSE k \in 1..Len(entries) :
                    /\ entries[k].key = key
                    /\ \A j \in (k + 1)..Len(entries) : entries[j].key # key].value]

\* yaml.Unmarshal into map[interface{}]interface{}: a nested mapping is a
\* map[interface{}]interface{} as well
Unmarshal(doc) ==
    LET top == EntriesToMap(doc.entries)
    IN  [key \in DOMAIN top |->
            IF top[key].nested THEN Nested(EntriesToMap(top[key].fields)) ELSE top[key]]

\* delete(m, key)
DeleteKey(m, key) == [k \in DOMAIN m \ {key} |-> m[k]]

\* removeUnwantedFields that leaves the metadata alone
removeUnwantedFields_StatusOnly(obj) == DeleteKey(obj, StatusField)

\* removeUnwantedFields: the status goes, and when the metadata is a map
\* its unwanted fields go
removeUnwantedFields(obj) ==
    LET noStatus == DeleteKey(obj, StatusField)
    IN  IF MetadataField \in DOMAIN noStatus /\ noStatus[MetadataField].nested
        THEN [noStatus EXCEPT
                  ![MetadataField] =
                      Nested([k \in DOMAIN @.fields \ UnwantedMetadataFields |-> @.fields[k]])]
        ELSE noStatus

\* the order of the runes of a key
RuneRank(r) == CHOOSE k \in 1..(Len(UpperSeq) + Len(LowerSeq)) : (UpperSeq \o LowerSeq)[k] = r

RECURSIVE KeyLess(_, _)
\* the order in which yaml.Marshal writes the keys of a map
KeyLess(a, b) ==
    IF a = <<>> THEN b # <<>>
    ELSE IF b = <<>> THEN FALSE
    ELSE IF Head(a) = Head(b) THEN KeyLess(Tail(a), Tail(b))
    ELSE RuneRank(Head(a)) < RuneRank(Head(b))

RECURSIVE SortedKeys(_)
SortedKeys(keys) ==
    IF keys = {} THEN <<>>
    ELSE LET first == CHOOSE k \in keys : \A other \in keys \ {k} : KeyLess(k, other)
         IN  <<first>> \o SortedKeys(keys \ {first})

RECURSIVE MarshalFields(_, _, _)
\* the lines "<indent><key>: <scalar>" of the keys given, in order
MarshalFields(m, keys, indent) ==
    IF keys = <<>> THEN <<>>
    ELSE indent \o Head(keys) \o <<":", " ">> \o m[Head(keys)] \o <<"\n">>
             \o MarshalFields(m, Tail(keys), indent)

EmptyMapText == <<"{", "}">>

RECURSIVE MarshalEntries(_, _)
MarshalEntries(obj, keys) ==
    IF keys = <<>> THEN <<>>
    ELSE LET key == Head(keys)
             value == obj[key]
             text == IF ~value.nested
                     THEN key \o <<":", " ">> \o value.scalar \o <<"\n">>
                     ELSE IF DOMAIN value.fields = {}
                     THEN key \o <<":", " ">> \o EmptyMapText \o <<"\n">>
                     ELSE key \o <<":", "\n">>
                              \o MarshalFields(value.fields,
                                               SortedKeys(DOMAIN value.fields),
                                               <<" ", " ">>)
         IN  text \o MarshalEntries(obj, Tail(keys))

\* yaml.Marshal of a map
Marshal(obj) ==
    IF DOMAIN obj = {} THEN EmptyMapText \o <<"\n">>
    ELSE MarshalEntries(obj, SortedKeys(DOMAIN obj))

\* the Go slice s[from:to]
Slice(s, from, to) == SubSeq(s, from + 1, to)

\* strings.HasSuffix
HasSuffix(s, p) == Len(s) >= Len(p) /\ SubSeq(s, Len(s) - Len(p) + 1, Len(s)) = p

RECURSIVE commonPrefixLength(_, _)
\* commonPrefixLength: the length of the longest common prefix
commonPrefixLength(a, b) ==
    IF a = <<>> \/ b = <<>> \/ Head(a) # Head(b) THEN 0
    ELSE 1 + commonPrefixLength(Tail(a), Tail(b))

\* the sequence backwards
Reverse(s) == [k \in 1..Len(s) |-> s[Len(s) + 1 - k]]

\* commonSuffixLength: the length of the longest common suffix
commonSuffixLength(a, b) == commonPrefixLength(Reverse(a), Reverse(b))

\* runesIndexOf: the first offset from start on at which pattern lies in
\* target, -1 when there is none; a start past the last rune of target
\* gives -1 whatever the pattern, and a start below 0 counts as 0
runesIndexOf(target, pattern, start) ==
    LET from == IF start <= 0 THEN 0 ELSE start
        places == {j \in from..(Len(target) - Len(pattern)) :
                       Slice(target, j, j + Len(pattern)) = pattern}
    IN  IF start > Len(target) - 1 THEN -1
        ELSE IF places = {} THEN -1
        ELSE CHOOSE j \in places : \A other \in places : j <= other

DiffEqual == "equal"
DiffDelete == "delete"
DiffInsert == "insert"

\* Diff{Type, Text}
Diff(op, text) == [op |-> op, text |-> text]

\* splice: amount elements from the offset index on are replaced by elems
Splice(diffs, index, amount, elems) ==
    SubSeq(diffs, 1, index) \o elems \o SubSeq(diffs, index + amount + 1, Len(diffs))

\* the counters and texts DiffCleanupMerge resets at every equality
MergeState(diffs, pointer) ==
    [diffs |-> diffs, pointer |-> pointer, countDelete |-> 0, countInsert |-> 0,
     textDelete |-> <<>>, textInsert |-> <<>>]

\* DiffCleanupMerge, first pass, at an equality: the deletions and
\* insertions gathered before it are merged into one of each, their common
\* prefix and suffix go to the equalities around them; an equality that
\* follows an equality is joined to it
MergeAtEqual(m) ==
    LET cd == m.countDelete
        ci == m.countInsert
        x == m.pointer - cd - ci
        \* the offending records are deleted and the merged ones added
        replaced(f) ==
            MergeState(
                IF cd = 0
                THEN Splice(f.diffs, f.pointer - ci, cd + ci,
                            <<Diff(DiffInsert, f.textInsert)>>)
                ELSE IF ci = 0
                THEN Splice(f.diffs, f.pointer - cd, cd + ci,
                            <<Diff(DiffDelete, f.textDelete)>>)
                ELSE Splice(f.diffs, f.pointer - cd - ci, cd + ci,
                            <<Diff(DiffDelete, f.textDelete),
                              Diff(DiffInsert, f.textInsert)>>),
                f.pointer - cd - ci + 1
                    + (IF cd # 0 THEN 1 ELSE 0) + (IF ci # 0 THEN 1 ELSE 0))
        \* the common suffix goes to the front of the equality
        suffixFactored(f, commonlength) ==
            IF commonlength = 0 THEN f
            ELSE [f EXCEPT
                      !.diffs[f.pointer + 1].text =
                          Slice(f.textInsert, Len(f.textInsert) - commonlength,
                                Len(f.textInsert)) \o @,
                      !.textInsert = Slice(@, 0, Len(@) - commonlength),
                      !.textDelete = Slice(@, 0, Len(@) - commonlength)]
        \* the common prefix goes to the end of the equality before the
        \* edits, or to a new equality at the front of the list
        prefixFactored(commonlength) ==
            IF commonlength = 0 THEN m
            ELSE IF x > 0 /\ m.diffs[x].op = DiffEqual
            THEN [m EXCEPT
                      !.diffs[x].text = @ \o Slice(m.textInsert, 0, commonlength),
                      !.textInsert = Slice(@, commonlength, Len(@)),
                      !.textDelete = Slice(@, commonlength, Len(@))]
            ELSE [m EXCEPT
                      !.diffs = <<Diff(DiffEqual, Slice(m.textInsert, 0, commonlength))>> \o @,
                      !.pointer = @ + 1,
                      !.textInsert = Slice(@, commonlength, Len(@)),
                      !.textDelete = Slice(@, commonlength, Len(@))]
        factored(f) == suffixFactored(f, commonSuffixLength(f.textInsert, f.textDelete))
    IN  IF cd + ci > 1
        THEN IF cd # 0 /\ ci # 0
             THEN replaced(factored(prefixFactored(
                               commonPrefixLength(m.textInsert, m.textDelete))))
             ELSE replaced(m)
        ELSE IF m.pointer # 0 /\ m.diffs[m.pointer].op = DiffEqual
        THEN MergeState(Splice([m.diffs EXCEPT
                                    ![m.pointer].text = @ \o m.diffs[m.pointer + 1].text],
                               m.pointer, 1, <<>>),
                        m.pointer)
        ELSE MergeState(m.diffs, m.pointer + 1)

RECURSIVE MergePass(_)
\* DiffCleanupMerge, first pass: the loop `for pointer < len(diffs)`
MergePass(m) ==
    IF m.pointer >= Len(m.diffs) THEN m.diffs
    ELSE IF m.diffs[m.pointer + 1].op = DiffInsert
    THEN MergePass([m EXCEPT !.countInsert = @ + 1,
                             !.textInsert = @ \o m.diffs[m.pointer + 1].text,
                             !.pointer = @ + 1])
    ELSE IF m.diffs[m.pointer + 1].op = DiffDelete
    THEN MergePass([m EXCEPT !.countDelete = @ + 1,
                             !.textDelete = @ \o m.diffs[m.pointer + 1].text,
                             !.pointer = @ + 1])
    ELSE MergePass(MergeAtEqual(m))

RECURSIVE ShiftPass(_)
\* DiffCleanupMerge, second pass: a single edit between two equalities is
\* shifted over the equality it ends or starts with, which removes that
\* equality
ShiftPass(s) ==
    IF s.pointer >= Len(s.diffs) - 1 THEN s
    ELSE LET p == s.pointer
             previous == s.diffs[p]
             current == s.diffs[p + 1]
             following == s.diffs[p + 2]
         IN  IF previous.op = DiffEqual /\ following.op = DiffEqual
             THEN IF HasSuffix(current.text, previous.text)
                  THEN ShiftPass(
                           [diffs |-> Splice(
                                [s.diffs EXCEPT
                                     ![p + 1].text =
                                         previous.text
                                             \o Slice(current.text, 0,
                                                      Len(current.text) - Len(previous.text)),
                                     ![p + 2].text = previous.text \o @],
                                p - 1, 1, <<>>),
                            pointer |-> p + 1, changes |-> TRUE])
                  ELSE IF HasPrefix(current.text, following.text)
                  THEN ShiftPass(
                           [diffs |-> Splice(
                                [s.diffs EXCEPT
                                     ![p].text = @ \o following.text,
                                     ![p + 1].text =
                                         Slice(current.text, Len(following.text),
                                               Len(current.text))
                                             \o following.text],
                                p + 1, 1, <<>>),
                            pointer |-> p + 1, changes |-> TRUE])
                  ELSE ShiftPass([s EXCEPT !.pointer = @ + 1])
             ELSE ShiftPass([s EXCEPT !.pointer = @ + 1])

RECURSIVE DiffCleanupMerge(_)
\* DiffCleanupMerge: the first pass over the list with a dummy equality at
\* its end, which is removed afterwards, then the second pass; the whole
\* is started again when the second pass has shifted an edit
DiffCleanupMerge(diffs) ==
    LET trimmed(merged) ==
            IF merged[Len(merged)].text = <<>>
            THEN SubSeq(merged, 1, Len(merged) - 1) ELSE merged
        again(shifted) ==
            IF shifted.changes THEN DiffCleanupMerge(shifted.diffs) ELSE shifted.diffs
    IN  again(ShiftPass(
                  [diffs |-> trimmed(MergePass(
                                 MergeState(Append(diffs, Diff(DiffEqual, <<>>)), 0))),
                   pointer |-> 1, changes |-> FALSE]))

\* diffHalfMatchI and diffHalfMatch finding no common part long enough (nil)
NoHalfMatch == <<>>

RECURSIVE HalfMatchScan(_, _, _, _, _, _)
\* diffHalfMatchI: the loop over the places j of the seed in the shorter
\* text; the common part around the seed is kept when it is longer than the
\* best one before.  The result holds, in this order, the two parts of the
\* longer text, the two parts of the shorter text and the common part.
HalfMatchScan(l, s, i, seed, j, best) ==
    LET bestCommonLen == IF best = NoHalfMatch THEN 0 ELSE Len(best[5])
        kept(prefixLength, suffixLength) ==
            IF bestCommonLen < suffixLength + prefixLength
            THEN << Slice(l, 0, i - suffixLength),
                    Slice(l, i + prefixLength, Len(l)),
                    Slice(s, 0, j - suffixLength),
                    Slice(s, j + prefixLength, Len(s)),
                    Slice(s, j - suffixLength, j + prefixLength) >>
            ELSE best
    IN  IF j = -1 THEN best
        ELSE HalfMatchScan(l, s, i, seed, runesIndexOf(s, seed, j + 1),
                           kept(commonPrefixLength(Slice(l, i, Len(l)), Slice(s, j, Len(s))),
                                commonSuffixLength(Slice(l, 0, i), Slice(s, 0, j))))

\* diffHalfMatchI: a quarter of the longer text, taken at offset i, is the
\* seed; the result is nil unless the best common part is at least half of
\* the longer text
diffHalfMatchI(l, s, i) ==
    LET seed == Slice(l, i, i + Len(l) \div 4)
        longEnough(best) ==
            IF best = NoHalfMatch THEN NoHalfMatch
            ELSE IF Len(best[5]) * 2 < Len(l) THEN NoHalfMatch
            ELSE best
    IN  longEnough(HalfMatchScan(l, s, i, seed, runesIndexOf(s, seed, 0), NoHalfMatch))

\* diffHalfMatch (DiffTimeout is one second, as diffmatchpatch.New sets it):
\* the two seeds, the longer common part of the two, and the four remaining
\* parts in the order text1, text2
diffHalfMatch(text1, text2) ==
    LET longer == Len(text1) > Len(text2)
        longtext == IF longer THEN text1 ELSE text2
        shorttext == IF longer THEN text2 ELSE text1
        selected(hm1, hm2) ==
            IF hm2 = NoHalfMatch THEN hm1
            ELSE IF hm1 = NoHalfMatch THEN hm2
            ELSE IF Len(hm1[5]) > Len(hm2[5]) THEN hm1 ELSE hm2
        ordered(hm) ==
            IF hm = NoHalfMatch \/ longer THEN hm
            ELSE <<hm[3], hm[4], hm[1], hm[2], hm[5]>>
    IN  IF Len(longtext) < 4 \/ Len(shorttext) * 2 < Len(longtext) THEN NoHalfMatch
        ELSE ordered(selected(
                 diffHalfMatchI(longtext, shorttext, (Len(longtext) + 3) \div 4),
                 diffHalfMatchI(longtext, shorttext, (Len(longtext) + 1) \div 2)))

RECURSIVE SnakeForward(_, _, _, _)
\* diffBisect: the front path follows the diagonal while the runes agree
SnakeForward(runes1, runes2, x1, y1) ==
    IF x1 < Len(runes1) /\ y1 < Len(runes2) /\ runes1[x1 + 1] = runes2[y1 + 1]
    THEN SnakeForward(runes1, runes2, x1 + 1, y1 + 1)
    ELSE x1

RECURSIVE SnakeBackward(_, _, _, _)
\* diffBisect: the reverse path follows the diagonal from the ends
SnakeBackward(runes1, runes2, x2, y2) ==
    IF x2 < Len(runes1) /\ y2 < Len(runes2)
           /\ runes1[Len(runes1) - x2] = runes2[Len(runes2) - y2]
    THEN SnakeBackward(runes1, runes2, x2 + 1, y2 + 1)
    ELSE x2

\* diffBisect: maxD, which is vOffset as well, half of vLength
BisectMaxD(runes1, runes2) == (Len(runes1) + Len(runes2) + 1) \div 2

RECURSIVE BisectFront(_, _, _, _, _)
\* diffBisect: the loop over k1 that walks the front path one step; it
\* stops when the front path has met the reverse path
BisectFront(runes1, runes2, d, k1, b) ==
    LET vOffset == BisectMaxD(runes1, runes2)
        delta == Len(runes1) - Len(runes2)
        k1Offset == vOffset + k1
        k2Offset == vOffset + delta - k1
        start == IF k1 = -d \/ (k1 # d /\ b.v1[k1Offset - 1] < b.v1[k1Offset + 1])
                 THEN b.v1[k1Offset + 1]
                 ELSE b.v1[k1Offset - 1] + 1
        walked(x1) ==
            IF x1 > Len(runes1) THEN [b EXCEPT !.v1[k1Offset] = x1, !.k1end = @ + 2]
            ELSE IF x1 - k1 > Len(runes2)
            THEN [b EXCEPT !.v1[k1Offset] = x1, !.k1start = @ + 2]
            ELSE IF /\ delta % 2 # 0
                    /\ k2Offset >= 0 /\ k2Offset < 2 * vOffset
                    /\ b.v2[k2Offset] # -1
                    /\ x1 >= Len(runes1) - b.v2[k2Offset]
            THEN [b EXCEPT !.v1[k1Offset] = x1, !.found = TRUE, !.x = x1, !.y = x1 - k1]
            ELSE [b EXCEPT !.v1[k1Offset] = x1]
    IN  IF b.found \/ k1 > d - b.k1end THEN b
        ELSE BisectFront(runes1, runes2, d, k1 + 2,
                         walked(SnakeForward(runes1, runes2, start, start - k1)))

RECURSIVE BisectReverse(_, _, _, _, _)
\* diffBisect: the loop over k2 that walks the reverse path one step
BisectReverse(runes1, runes2, d, k2, b) ==
    LET vOffset == BisectMaxD(runes1, runes2)
        delta == Len(runes1) - Len(runes2)
        k2Offset == vOffset + k2
        k1Offset == vOffset + delta - k2
        start == IF k2 = -d \/ (k2 # d /\ b.v2[k2Offset - 1] < b.v2[k2Offset + 1])
                 THEN b.v2[k2Offset + 1]
                 ELSE b.v2[k2Offset - 1] + 1
        walked(x2) ==
            IF x2 > Len(runes1) THEN [b EXCEPT !.v2[k2Offset] = x2, !.k2end = @ + 2]
            ELSE IF x2 - k2 > Len(runes2)
            THEN [b EXCEPT !.v2[k2Offset] = x2, !.k2start = @ + 2]
            ELSE IF /\ delta % 2 = 0
                    /\ k1Offset >= 0 /\ k1Offset < 2 * vOffset
                    /\ b.v1[k1Offset] # -1
                    /\ b.v1[k1Offset] >= Len(runes1) - x2
            THEN [b EXCEPT !.v2[k2Offset] = x2, !.found = TRUE,
                           !.x = b.v1[k1Offset],
                           !.y = vOffset + b.v1[k1Offset] - k1Offset]
            ELSE [b EXCEPT !.v2[k2Offset] = x2]
    IN  IF b.found \/ k2 > d - b.k2end THEN b
        ELSE BisectReverse(runes1, runes2, d, k2 + 2,
                           walked(SnakeBackward(runes1, runes2, start, start - k2)))

\* the deadline of DiffMain, one second after its start (DiffTimeout as
\* diffmatchpatch.New sets it), is read against the clock at every
\* sixteenth round of the loop over d in diffBisect.  What the clock
\* says is given by checks, the number of these readings, counted over
\* the whole of one DiffMain, that still find the deadline ahead:
\* NoDeadline when every reading does
NoDeadline == -1

RECURSIVE BisectRounds(_, _, _, _)
\* diffBisect: the loop over d; it is left when the paths have met, when
\* d has reached maxD, or when a reading of the clock finds that the
\* deadline has passed (b.read readings were made before, all of the
\* b.checks that find it ahead)
BisectRounds(runes1, runes2, d, b) ==
    LET afterReverse(back) ==
            IF back.found THEN back ELSE BisectRounds(runes1, runes2, d + 1, back)
        afterFront(front) ==
            IF front.found THEN front
            ELSE afterReverse(BisectReverse(runes1, runes2, d, -d + front.k2start, front))
        round(c) == afterFront(BisectFront(runes1, runes2, d, -d + c.k1start, c))
    IN  IF d >= BisectMaxD(runes1, runes2) THEN b
        ELSE IF d % 16 # 0 THEN round(b)
        ELSE IF b.checks # NoDeadline /\ b.read >= b.checks THEN b
        ELSE round([b EXCEPT !.read = @ + 1])

\* diffBisect: the point (x, y) at which the front path and the reverse
\* path of a shortest edit script meet (found = FALSE: the texts have
\* nothing in common, or the deadline has passed), and the readings of
\* the clock made so far
BisectMiddle(runes1, runes2, read, checks) ==
    LET vOffset == BisectMaxD(runes1, runes2)
        v == [k \in 0..(2 * vOffset - 1) |-> IF k = vOffset + 1 THEN 0 ELSE -1]
    IN  BisectRounds(runes1, runes2, 0,
                     [v1 |-> v, v2 |-> v, k1start |-> 0, k1end |-> 0,
                      k2start |-> 0, k2end |-> 0, found |-> FALSE, x |-> 0, y |-> 0,
                      read |-> read, checks |-> checks])

\* a diff and the readings of the clock made up to its end
Diffed(diffs, read) == [diffs |-> diffs, read |-> read]

RECURSIVE diffMainRunes(_, _, _, _)
RECURSIVE diffCompute(_, _, _, _)
RECURSIVE diffBisect(_, _, _, _)

\* diffBisect and diffBisectSplit: the texts are cut at the middle point
\* and the two pairs of parts are diffed one after the other; without a
\* middle point the diff is the deletion of one text and the insertion of
\* the other
diffBisect(runes1, runes2, read, checks) ==
    LET joined(first, second) == Diffed(first.diffs \o second.diffs, second.read)
        after(middle, first) ==
            joined(first, diffMainRunes(Slice(runes1, middle.x, Len(runes1)),
                                        Slice(runes2, middle.y, Len(runes2)),
                                        first.read, checks))
        diffBisectSplit(middle) ==
            IF middle.found
            THEN after(middle, diffMainRunes(Slice(runes1, 0, middle.x),
                                             Slice(runes2, 0, middle.y),
                                             middle.read, checks))
            ELSE Diffed(<<Diff(DiffDelete, runes1), Diff(DiffInsert, runes2)>>,
                        middle.read)
    IN  diffBisectSplit(BisectMiddle(runes1, runes2, read, checks))

\* diffCompute: the diff of two texts that share no prefix and no suffix:
\* one of them is empty, or the shorter lies inside the longer, or the
\* shorter is one rune, or the texts are cut in two around a half match,
\* or they are bisected
diffCompute(text1, text2, read, checks) ==
    LET longer == Len(text1) > Len(text2)
        longtext == IF longer THEN text1 ELSE text2
        shorttext == IF longer THEN text2 ELSE text1
        op == IF longer THEN DiffDelete ELSE DiffInsert
        joined(hm, diffsA, diffsB) ==
            Diffed(diffsA.diffs \o <<Diff(DiffEqual, hm[5])>> \o diffsB.diffs,
                   diffsB.read)
        after(hm, diffsA) ==
            joined(hm, diffsA, diffMainRunes(hm[2], hm[4], diffsA.read, checks))
        halved(hm) ==
            IF hm # NoHalfMatch
            THEN after(hm, diffMainRunes(hm[1], hm[3], read, checks))
            ELSE diffBisect(text1, text2, read, checks)
        inside(i) ==
            IF i # -1
            THEN Diffed(<< Diff(op, Slice(longtext, 0, i)),
                           Diff(DiffEqual, shorttext),
                           Diff(op, Slice(longtext, i + Len(shorttext), Len(longtext))) >>,
                        read)
            ELSE IF Len(shorttext) = 1
            THEN Diffed(<<Diff(DiffDelete, text1), Diff(DiffInsert, text2)>>, read)
            ELSE halved(diffHalfMatch(text1, text2))
    IN  IF Len(text1) = 0 THEN Diffed(<<Diff(DiffInsert, text2)>>, read)
        ELSE IF Len(text2) = 0 THEN Diffed(<<Diff(DiffDelete, text1)>>, read)
        ELSE inside(runesIndexOf(longtext, shorttext, 0))

\* diffMainRunes with checklines = false: equal texts give one equal span
\* (none for empty texts); otherwise the common prefix and the common
\* suffix are equal spans around the diff of the middle parts, and the
\* whole is cleaned up by DiffCleanupMerge
diffMainRunes(text1, text2, read, checks) ==
    LET merged(pre, suf, middle) ==
            Diffed(DiffCleanupMerge(
                       (IF pre # 0 THEN <<Diff(DiffEqual, Slice(text1, 0, pre))>> ELSE <<>>)
                           \o middle.diffs
                           \o (IF suf # 0
                               THEN <<Diff(DiffEqual,
                                           Slice(text1, Len(text1) - suf, Len(text1)))>>
                               ELSE <<>>)),
                   middle.read)
        trimmed(pre, suf) ==
            merged(pre, suf, diffCompute(Slice(text1, pre, Len(text1) - suf),
                                         Slice(text2, pre, Len(text2) - suf),
                                         read, checks))
        afterPrefix(pre) ==
            trimmed(pre, commonSuffixLength(Slice(text1, pre, Len(text1)),
                                            Slice(text2, pre, Len(text2))))
    IN  IF text1 = text2
        THEN Diffed(IF Len(text1) > 0 THEN <<Diff(DiffEqual, text1)>> ELSE <<>>, read)
        ELSE afterPrefix(commonPrefixLength(text1, text2))

\* diffmatchpatch.DiffMain with checklines = false; checks is the number
\* of readings of the clock that find the deadline ahead
DiffMain(text1, text2, checks) == diffMainRunes(text1, text2, 0, checks).diffs

\* the readings of the clock one DiffMain makes when none of them finds
\* that the deadline has passed
DiffReadings(text1, text2) == diffMainRunes(text1, text2, 0, NoDeadline).read

\* what the clock can say during DiffMain(text1, text2): the deadline is
\* never found to have passed, or it is found so at one of the readings,
\* the first one included
ClockOutcomes(text1, text2) ==
    {NoDeadline} \cup 0..(DiffReadings(text1, text2) - 1)

\* showDiff parsing the after document first
showDiff_AfterFirst(before, after, checks) ==
    IF ~after.wellFormed THEN [err |-> "parse after", diffs |-> <<>>]
    ELSE IF ~before.wellFormed THEN [err |-> "parse before", diffs |-> <<>>]
    ELSE LET beforeClean == Marshal(removeUnwantedFields(Unmarshal(before)))
             afterClean == Marshal(removeUnwantedFields(Unmarshal(after)))
         IN  [err |-> "", diffs |-> DiffMain(beforeClean, afterClean, checks)]

\* what the clock can say during the DiffMain of showDiff(before, after)
showDiffClock(before, after) ==
    IF ~before.wellFormed \/ ~after.wellFormed THEN {NoDeadline}
    ELSE ClockOutcomes(Marshal(removeUnwantedFields(Unmarshal(before))),
                       Marshal(removeUnwantedFields(Unmarshal(after))))

\* showDiff: the error ("" for nil) and the diff printed
showDiff(before, after, checks) ==
    IF ~before.wellFormed THEN [err |-> "parse before", diffs |-> <<>>]
    ELSE IF ~after.wellFormed THEN [err |-> "parse after", diffs |-> <<>>]
    ELSE LET beforeClean == Marshal(removeUnwantedFields(Unmarshal(before)))
             afterClean == Marshal(removeUnwantedFields(Unmarshal(after)))
         IN  [err |-> "", diffs |-> DiffMain(beforeClean, afterClean, checks)]

-----------------------------------------------------------------------------
(* showDiff over bounded documents                                          *)

MaxEntries == 2      \* most top-level entries of a document

ValueA == <<"a">>
ValueB == <<"b">>

Entry(key, value) == [key |-> key, value |-> value]

\* the metadata blocks of the documents
MetadataSamples ==
    { << Entry(NameField, ValueA) >>,
      << Entry(NameField, ValueA), Entry(UidField, ValueA) >>,
      << Entry(UidField, ValueB), Entry(NameField, ValueA) >>,
      << Entry(NameField, ValueB), Entry(AnnotationsField, ValueA) >> }

\* the top-level entries of the documents
EntrySamples ==
    { Entry(KindField, Scalar(ValueA)), Entry(KindField, Scalar(ValueB)),
      Entry(StatusField, Scalar(ValueA)), Entry(MetadataField, Scalar(ValueA)) }
        \cup {Entry(MetadataField, Nested(fields)) : fields \in MetadataSamples}

\* a text yaml.Unmarshal rejects
MalformedDocument == [wellFormed |-> FALSE, entries |-> <<>>]

DocumentSamples ==
    {[wellFormed |-> TRUE, entries |-> entries] :
         entries \in UNION {[1..n -> EntrySamples] : n \in 0..MaxEntries}}
        \cup {MalformedDocument}

ShowDiffStart(before, after) ==
    [before |-> before, after |-> after, done |-> FALSE, err |-> "", diffs |-> <<>>]

InitShowDiff ==
    /\ MachineInit
    /\ AnalyzerIdle
    /\ NameIdle
    /\ LoaderIdle /\ TimelineIdle /\ ArgsIdle /\ DiffCommandIdle /\ ResolverIdle /\ ColumnsIdle
    /\ sd \in {ShowDiffStart(before, after) :
                   before \in DocumentSamples, after \in DocumentSamples}

\* the call showDiff(sd.before, sd.after) returns
ShowDiff ==
    /\ ~sd.done
    /\ \E checks \in showDiffClock(sd.before, sd.after) :
          LET result == showDiff(sd.before, sd.after, checks)
          IN  sd' = [sd EXCEPT !.done = TRUE, !.err = result.err, !.diffs = result.diffs]
    /\ UNCHANGED <<machineVars, analyzerVars, nameVars, rm, tl, ka, dc, ga, bk>>

NextShowDiff == ShowDiff

SpecShowDiff == InitShowDiff /\ [][NextShowDiff]_vars

-----------------------------------------------------------------------------
(* runDiff: the timeline of the History records                             *)

MaxRecords == 3      \* most History records in the listed namespace
MaxStamp == 2        \* creation timestamps run from 1 to MaxStamp seconds

\* the snapshot references the three flows write into a History
SnapshotRefSamples ==
    {TimedName("kronoform-snapshot", 1), TimedName("delete", 1), TimedName("patch", 1)}

\* a History record as the timeline reads it: id is its place in the
\* listing returned by the store
HistoryItem(id, stamp, ref) == [id |-> id, creationTimestamp |-> stamp, snapshotRef |-> ref]

\* the listings k8sClient.List can return
Listings ==
    UNION {{[k \in 1..n |-> HistoryItem(k, stamps[k], refs[k])] :
                stamps \in [1..n -> 1..MaxStamp], refs \in [1..n -> SnapshotRefSamples]} :
           n \in 0..MaxRecords}

\* the function passed to sort.Slice: CreationTimestamp.Before
Before(a, b) == a.creationTimestamp < b.creationTimestamp

\* the orders sort.Slice may leave the items in: every permutation in which
\* no item stands before an item that is Before it.  sort.Slice does not
\* promise to keep the order of items neither of which is Before the other.
SortSliceResults(items) ==
    {[k \in 1..Len(items) |-> items[perm[k]]] :
         perm \in {f \in [1..Len(items) -> 1..Len(items)] :
                       /\ \A i, j \in 1..Len(items) : i # j => f[i] # f[j]
                       /\ \A i, j \in 1..Len(items) :
                              i < j => ~Before(items[f[j]], items[f[i]])}}

\* the operation column: derived from the prefix of the snapshot reference
OperationLabel(item) ==
    IF item.snapshotRef.prefix = "delete" THEN "Delete"
    ELSE IF item.snapshotRef.prefix = "patch" THEN "Patch"
    ELSE "Apply"

\* the rows printed for the items, numbered from 1
TimelineRows(items) ==
    [k \in 1..Len(items) |->
        [index |-> k, id |-> items[k].id, time |-> items[k].creationTimestamp,
         operation |-> OperationLabel(items[k]), snapshotRef |-> items[k].snapshotRef]]

TimelineStart(listing) ==
    [listing |-> listing, pc |-> "list", items |-> <<>>, rows |-> <<>>,
     err |-> "", shown |-> 0]

InitTimeline ==
    /\ MachineInit
    /\ AnalyzerIdle
    /\ NameIdle
    /\ LoaderIdle /\ DiffIdle /\ ArgsIdle /\ DiffCommandIdle /\ ResolverIdle /\ ColumnsIdle
    /\ tl \in {TimelineStart(listing) : listing \in Listings}

\* runDiff up to the listing: the namespace, the client and the List call
\* (fail = TRUE: one of them returns an error, which runDiff returns)
TimelineList ==
    /\ tl.pc = "list"
    /\ \E fail \in BOOLEAN :
          tl' = IF fail THEN [tl EXCEPT !.pc = "done", !.err = "list"]
                ELSE [tl EXCEPT !.pc = "sort", !.items = tl.listing]
    /\ UNCHANGED <<machineVars, analyzerVars, nameVars, rm, sd, ka, dc, ga, bk>>

\* runDiff: the items are sorted by creation time and the table is printed
TimelineSort ==
    /\ tl.pc = "sort"
    /\ \E sorted \in SortSliceResults(tl.items) :
          tl' = [tl EXCEPT !.items = sorted, !.rows = TimelineRows(sorted),
                           !.pc = IF sorted # <<>> THEN "select" ELSE "done"]
    /\ UNCHANGED <<machineVars, analyzerVars, nameVars, rm, sd, ka, dc, ga, bk>>

\* runDiff: the interactive selection (choice = -1: the input is not a
\* number); a choice within 1..len shows the manifests of that item
TimelineSelect ==
    /\ tl.pc = "select"
    /\ \E choice \in -1..(MaxRecords + 1) :
          tl' = [tl EXCEPT !.pc = "done",
                           !.shown = IF choice > 0 /\ choice <= Len(tl.items)
                                     THEN tl.items[choice].id ELSE 0]
    /\ UNCHANGED <<machineVars, analyzerVars, nameVars, rm, sd, ka, dc, ga, bk>>

NextTimeline == TimelineList \/ TimelineSort \/ TimelineSelect

SpecTimeline == InitTimeline /\ [][NextTimeline]_vars

-----------------------------------------------------------------------------
(* runDiff: the Created, Modified and Deleted columns of a timeline row     *)

MaxChanges == 3      \* most ResourceChange entries of the record of a row

ColumnLimit == 33    \* a column string longer than this is cut
ColumnKept == 30     \* what is kept of a column string that is cut
Ellipsis == <<".", ".", ".">>
ListSeparator == <<",", " ">>

\* the bytes of the UTF-8 encoding of a rune
Utf8(r) ==
    IF r = "U+00E9" THEN <<"0xC3", "0xA9">>
    ELSE IF r = "U+00C9" THEN <<"0xC3", "0x89">>
    ELSE IF r = "U+0130" THEN <<"0xC4", "0xB0">>
    ELSE IF r = "U+212A" THEN <<"0xE2", "0x84", "0xAA">>
    ELSE IF r = "U+0085" THEN <<"0xC2", "0x85">>
    ELSE IF r = "U+00A0" THEN <<"0xC2", "0xA0">>
    ELSE IF r = "U+1680" THEN <<"0xE1", "0x9A", "0x80">>
    ELSE IF r = "U+2000" THEN <<"0xE2", "0x80", "0x80">>
    ELSE IF r = "U+2001" THEN <<"0xE2", "0x80", "0x81">>
    ELSE IF r = "U+2002" THEN <<"0xE2", "0x80", "0x82">>
    ELSE IF r = "U+2003" THEN <<"0xE2", "0x80", "0x83">>
    ELSE IF r = "U+2004" THEN <<"0xE2", "0x80", "0x84">>
    ELSE IF r = "U+2005" THEN <<"0xE2", "0x80", "0x85">>
    ELSE IF r = "U+2006" THEN <<"0xE2", "0x80", "0x86">>
    ELSE IF r = "U+2007" THEN <<"0xE2", "0x80", "0x87">>
    ELSE IF r = "U+2008" THEN <<"0xE2", "0x80", "0x88">>
    ELSE IF r = "U+2009" THEN <<"0xE2", "0x80", "0x89">>
    ELSE IF r = "U+200A" THEN <<"0xE2", "0x80", "0x8A">>
    ELSE IF r = "U+2028" THEN <<"0xE2", "0x80", "0xA8">>
    ELSE IF r = "U+2029" THEN <<"0xE2", "0x80", "0xA9">>
    ELSE IF r = "U+202F" THEN <<"0xE2", "0x80", "0xAF">>
    ELSE IF r = "U+205F" THEN <<"0xE2", "0x81", "0x9F">>
    ELSE IF r = "U+3000" THEN <<"0xE3", "0x80", "0x80">>
    ELSE IF r = "U+000B" THEN <<"0x0B">>
    ELSE <<r>>

RECURSIVE Bytes(_)
\* a Go string as the sequence of its bytes
Bytes(s) == IF s = <<>> THEN <<>> ELSE Utf8(Head(s)) \o Bytes(Tail(s))

\* `if len(str) > 33 { str = str[:30] + "..." }` on the bytes of the string
TruncateColumn(str) ==
    IF Len(Bytes(str)) > ColumnLimit
    THEN SubSeq(Bytes(str), 1, ColumnKept) \o Ellipsis
    ELSE Bytes(str)

ResourceLong ==
    <<"d", "e", "p", "l", "o", "y", "m", "e", "n", "t", "/", "a", "p", "p", "-", "a">>
ResourceShort ==
    <<"c", "o", "n", "f", "i", "g", "m", "a", "p", "/", "a", "p", "p", "-", "b">>
ResourceAccented ==
    <<"r", "o", "l", "e", "/">> \o [k \in 1..15 |-> "U+00E9"]

\* the ResourceChange lists of the records
ChangeSamples ==
    {[Resource |-> r, Operation |-> op] :
         r \in {ResourceLong, ResourceShort, ResourceAccented},
         op \in {Created, Configured, Deleted, Unchanged}}

ChangeLists == UNION {[1..n -> ChangeSamples] : n \in 0..MaxChanges}

ColumnsStart(changes) ==
    [changes |-> changes, k |-> 0, created |-> <<>>, modified |-> <<>>, deleted |-> <<>>,
     done |-> FALSE, createdStr |-> <<>>, modifiedStr |-> <<>>, deletedStr |-> <<>>]

InitColumns ==
    /\ MachineInit
    /\ AnalyzerIdle
    /\ NameIdle
    /\ LoaderIdle /\ DiffIdle /\ TimelineIdle /\ ArgsIdle /\ DiffCommandIdle /\ ResolverIdle
    /\ bk \in {ColumnsStart(changes) : changes \in ChangeLists}

\* one iteration of the loop over history.Spec.ResourceChanges
ColumnsNext ==
    /\ ~bk.done
    /\ bk.k < Len(bk.changes)
    /\ LET change == bk.changes[bk.k + 1]
       IN  bk' = [bk EXCEPT
                      !.k = bk.k + 1,
                      !.created = IF change.Operation = Created
                                  THEN Append(@, change.Resource) ELSE @,
                      !.modified = IF change.Operation = Configured
                                   THEN Append(@, change.Resource) ELSE @,
                      !.deleted = IF change.Operation = Deleted
                                  THEN Append(@, change.Resource) ELSE @]
    /\ UNCHANGED <<machineVars, analyzerVars, nameVars, rm, sd, tl, ka, dc, ga>>

\* the three lists are joined and cut, and the row is printed
ColumnsFormat ==
    /\ ~bk.done
    /\ bk.k = Len(bk.changes)
    /\ bk' = [bk EXCEPT
                  !.done = TRUE,
                  !.createdStr = TruncateColumn(Join(bk.created, ListSeparator)),
                  !.modifiedStr = TruncateColumn(Join(bk.modified, ListSeparator)),
                  !.deletedStr = TruncateColumn(Join(bk.deleted, ListSeparator))]
    /\ UNCHANGED <<machineVars, analyzerVars, nameVars, rm, sd, tl, ka, dc, ga>>

NextColumns == ColumnsNext \/ ColumnsFormat

SpecColumns == InitColumns /\ [][NextColumns]_vars

-----------------------------------------------------------------------------
(* The argument vector handed to kubectl by runApply, runDelete, runPatch   *)

MaxArgs == 2         \* most file names, and most positional arguments

FlagF == <<"-", "f">>
FlagN == <<"-", "n">>
FlagL == <<"-", "l">>
FlagP == <<"-", "p">>
FlagType == <<"-", "-", "t", "y", "p", "e">>
FlagAll == <<"-", "-", "a", "l", "l">>
FlagDryRunClient ==
    <<"-", "-", "d", "r", "y", "-", "r", "u", "n", "=", "c", "l", "i", "e", "n", "t">>
FlagIgnoreNotFound ==
    <<"-", "-", "i", "g", "n", "o", "r", "e", "-", "n", "o", "t", "-", "f", "o", "u", "n", "d", "=">>
ApplyCommand == <<"a", "p", "p", "l", "y">>
DeleteCommand == <<"d", "e", "l", "e", "t", "e">>
PatchCommand == <<"p", "a", "t", "c", "h">>
StrategicType == <<"s", "t", "r", "a", "t", "e", "g", "i", "c">>
MergeType == <<"m", "e", "r", "g", "e">>

RECURSIVE EachWithFlag(_, _)
\* for each value: append(kubectlArgs, flag, value)
EachWithFlag(flag, values) ==
    IF values = <<>> THEN <<>>
    ELSE <<flag, Head(values)>> \o EachWithFlag(flag, Tail(values))

RECURSIVE EachJoinedToFlag(_, _)
\* for each value: append(kubectlArgs, flag+value)
EachJoinedToFlag(flag, values) ==
    IF values = <<>> THEN <<>>
    ELSE <<flag \o Head(values)>> \o EachJoinedToFlag(flag, Tail(values))

\* runApply: "apply", the files, the dry run, the namespace, then args
ApplyArgs(f) ==
    <<ApplyCommand>>
        \o EachWithFlag(FlagF, f.filenames)
        \o (IF f.dryRun THEN <<FlagDryRunClient>> ELSE <<>>)
        \o (IF f.namespace # <<>> THEN <<FlagN, f.namespace>> ELSE <<>>)
        \o f.args

\* runDelete with the positional arguments after the flags
DeleteArgs_ArgsLast(f) ==
    <<DeleteCommand>>
        \o EachWithFlag(FlagF, f.filenames)
        \o (IF f.selector # <<>> THEN <<FlagL, f.selector>> ELSE <<>>)
        \o (IF f.namespace # <<>> THEN <<FlagN, f.namespace>> ELSE <<>>)
        \o (IF f.all THEN <<FlagAll>> ELSE <<>>)
        \o EachJoinedToFlag(FlagIgnoreNotFound, f.ignoreNotFound)
        \o f.args

\* runDelete: "delete", args, then the files, the selector, the namespace,
\* --all and --ignore-not-found
DeleteArgs(f) ==
    <<DeleteCommand>>
        \o f.args
        \o EachWithFlag(FlagF, f.filenames)
        \o (IF f.selector # <<>> THEN <<FlagL, f.selector>> ELSE <<>>)
        \o (IF f.namespace # <<>> THEN <<FlagN, f.namespace>> ELSE <<>>)
        \o (IF f.all THEN <<FlagAll>> ELSE <<>>)
        \o EachJoinedToFlag(FlagIgnoreNotFound, f.ignoreNotFound)

\* runPatch: "patch", the resource, the patch and its type, the namespace
PatchArgs(f) ==
    <<PatchCommand, f.args[1], FlagP, f.args[2], FlagType, f.patchType>>
        \o (IF f.namespace # <<>> THEN <<FlagN, f.namespace>> ELSE <<>>)

\* the argument vector of the command
KubectlArgs(f) ==
    IF f.cmd = "apply" THEN ApplyArgs(f)
    ELSE IF f.cmd = "delete" THEN DeleteArgs(f)
    ELSE PatchArgs(f)

\* the values given on the command line
FileArgSamples == {<<"a">>, <<"b">>}
PositionalSamples == {<<"p", "o", "d">>, <<"x">>}
SelectorSamples == {<<>>, <<"k", "=", "v">>}
IgnoreNotFoundSamples == {<<>>, << <<"t", "r", "u", "e">> >>}

ListsUpTo(S, lo, hi) == UNION {[1..n -> S] : n \in lo..hi}

\* the flags of a command with their default values
DefaultFlags(cmd) ==
    [cmd |-> cmd, filenames |-> <<>>, dryRun |-> FALSE, namespace |-> <<>>,
     selector |-> <<>>, all |-> FALSE, ignoreNotFound |-> <<>>,
     patchType |-> StrategicType, args |-> <<>>, built |-> FALSE, kubectlArgs |-> <<>>]

\* the command lines: each command with the flags it declares; patch runs
\* with two positional arguments or more
CommandLines ==
    {[DefaultFlags("apply") EXCEPT !.filenames = fs, !.dryRun = d, !.namespace = n, !.args = a] :
         fs \in ListsUpTo(FileArgSamples, 0, MaxArgs), d \in BOOLEAN, n \in Namespaces,
         a \in ListsUpTo(PositionalSamples, 0, MaxArgs)}
    \cup
    {[DefaultFlags("delete") EXCEPT !.filenames = fs, !.selector = l, !.namespace = n,
                                    !.all = al, !.ignoreNotFound = i, !.args = a] :
         fs \in ListsUpTo(FileArgSamples, 0, MaxArgs), l \in SelectorSamples,
         n \in Namespaces, al \in BOOLEAN, i \in IgnoreNotFoundSamples,
         a \in ListsUpTo(PositionalSamples, 0, MaxArgs)}
    \cup
    {[DefaultFlags("patch") EXCEPT !.patchType = t, !.namespace = n, !.args = a] :
         t \in {StrategicType, MergeType}, n \in Namespaces,
         a \in ListsUpTo(PositionalSamples, 2, MaxArgs + 1)}

InitArgs ==
    /\ MachineInit
    /\ AnalyzerIdle
    /\ NameIdle
    /\ LoaderIdle /\ DiffIdle /\ TimelineIdle /\ DiffCommandIdle /\ ResolverIdle /\ ColumnsIdle
    /\ ka \in CommandLines

\* the command builds kubectlArgs
BuildArgs ==
    /\ ~ka.built
    /\ ka' = [ka EXCEPT !.built = TRUE, !.kubectlArgs = KubectlArgs(ka)]
    /\ UNCHANGED <<machineVars, analyzerVars, nameVars, rm, sd, tl, dc, ga, bk>>

NextArgs == BuildArgs

SpecArgs == InitArgs /\ [][NextArgs]_vars

-----------------------------------------------------------------------------
(* diff <history-id>: runDiff, getHistory and getSnapshot of the version    *)
(* of main.go in which the diff command takes a History name, with the     *)
(* showDiff of that version                                                *)

RECURSIVE RawFields(_)
\* the nested entries of a document as they are written
RawFields(fields) ==
    IF fields = <<>> THEN <<>>
    ELSE <<" ", " ">> \o Head(fields).key \o <<":", " ">> \o Head(fields).value \o <<"\n">>
             \o RawFields(Tail(fields))

RECURSIVE RawEntries(_)
\* the top-level entries of a document as they are written
RawEntries(entries) ==
    IF entries = <<>> THEN <<>>
    ELSE LET e == Head(entries)
         IN  (IF e.value.nested
              THEN e.key \o <<":", "\n">> \o RawFields(e.value.fields)
              ELSE e.key \o <<":", " ">> \o e.value.scalar \o <<"\n">>)
                 \o RawEntries(Tail(entries))

\* the text of a document: the string stored in Spec.Manifests
RawText(doc) == IF doc.wellFormed THEN RawEntries(doc.entries) ELSE <<"{">>

\* showDiff of that version: the diff of the two texts as they are
showDiffOfTexts(before, after, checks) ==
    [err |-> "", diffs |-> DiffMain(RawText(before), RawText(after), checks)]

\* client.ObjectKey{Name: name}
NameKeyOf(name) == <<<<>>, name>>

HistoryOne == TimedName("kronoform-history", 1)
HistoryTwo == TimedName("kronoform-history", 2)
SnapshotOne == TimedName("kronoform-snapshot", 1)
SnapshotTwo == TimedName("kronoform-snapshot", 2)

\* the manifests of the stored records
StoredDocuments ==
    { [wellFormed |-> TRUE, entries |-> << Entry(KindField, Scalar(ValueA)) >>],
      [wellFormed |-> TRUE, entries |-> << Entry(KindField, Scalar(ValueB)) >>],
      [wellFormed |-> TRUE,
       entries |-> << Entry(MetadataField, Nested(<< Entry(NameField, ValueA) >>)) >>],
      [wellFormed |-> TRUE,
       entries |-> << Entry(MetadataField,
                            Nested(<< Entry(NameField, ValueA), Entry(UidField, ValueA) >>)) >>],
      [wellFormed |-> TRUE,
       entries |-> << Entry(StatusField, Scalar(ValueA)), Entry(KindField, Scalar(ValueA)) >>] }

\* the stores the diff command runs against: the History named HistoryOne
\* refers to a Snapshot that is stored, or to one that is not
HistoryStores ==
    {NameKeyOf(HistoryOne) :> [manifests |-> doc, snapshotRef |-> ref] :
         doc \in StoredDocuments, ref \in {SnapshotOne, SnapshotTwo}}

SnapshotStores ==
    {NameKeyOf(SnapshotOne) :> [manifests |-> doc, phase |-> "Completed"] :
         doc \in StoredDocuments}

NoRecord == [manifests |-> MalformedDocument, snapshotRef |-> NoName]

DiffCommandStart(historyID) ==
    [historyID |-> historyID, pc |-> "getHistory", history |-> NoRecord,
     snapshot |-> NoRecord, err |-> "", rendered |-> FALSE, diffs |-> <<>>]

InitDiff ==
    /\ now = 1
    /\ inv = [p \in Procs |-> IdleInvocation]
    /\ started = 0
    /\ histories \in HistoryStores
    /\ snapshots \in SnapshotStores
    /\ AnalyzerIdle
    /\ NameIdle
    /\ LoaderIdle /\ DiffIdle /\ TimelineIdle /\ ArgsIdle /\ ResolverIdle /\ ColumnsIdle
    /\ dc \in {DiffCommandStart(historyID) : historyID \in {HistoryOne, HistoryTwo}}

\* getHistory: the stored record, or the error of the Get
getHistory(historyID, fail) ==
    IF ~fail /\ NameKeyOf(historyID) \in DOMAIN histories
    THEN [err |-> "", history |-> histories[NameKeyOf(historyID)]]
    ELSE [err |-> "get", history |-> NoRecord]

\* getSnapshot: the stored record, or the error of the Get
getSnapshot(snapshotName, fail) ==
    IF ~fail /\ NameKeyOf(snapshotName) \in DOMAIN snapshots
    THEN [err |-> "", snapshot |-> [manifests |-> snapshots[NameKeyOf(snapshotName)].manifests,
                                    snapshotRef |-> NoName]]
    ELSE [err |-> "get", snapshot |-> NoRecord]

\* runDiff: the client is created and the History is fetched
\* (clientFail: createK8sClient returns an error)
DiffGetHistory ==
    /\ dc.pc = "getHistory"
    /\ \E clientFail \in BOOLEAN, fail \in BOOLEAN :
          LET got == getHistory(dc.historyID, fail)
          IN  dc' = IF clientFail THEN [dc EXCEPT !.pc = "done", !.err = "client"]
                    ELSE IF got.err # "" THEN [dc EXCEPT !.pc = "done", !.err = "history"]
                    ELSE [dc EXCEPT !.pc = "getSnapshot", !.history = got.history]
    /\ UNCHANGED <<machineVars, analyzerVars, nameVars, rm, sd, tl, ka, ga, bk>>

\* runDiff: the Snapshot the History refers to is fetched
DiffGetSnapshot ==
    /\ dc.pc = "getSnapshot"
    /\ \E fail \in BOOLEAN :
          LET got == getSnapshot(dc.history.snapshotRef, fail)
          IN  dc' = IF got.err # "" THEN [dc EXCEPT !.pc = "done", !.err = "snapshot"]
                    ELSE [dc EXCEPT !.pc = "show", !.snapshot = got.snapshot]
    /\ UNCHANGED <<machineVars, analyzerVars, nameVars, rm, sd, tl, ka, ga, bk>>

\* runDiff: the diff of the two manifests is printed
DiffShow ==
    /\ dc.pc = "show"
    /\ \E checks \in ClockOutcomes(RawText(dc.snapshot.manifests),
                                     RawText(dc.history.manifests)) :
          LET shown == showDiffOfTexts(dc.snapshot.manifests, dc.history.manifests, checks)
          IN  dc' = [dc EXCEPT !.pc = "done", !.rendered = TRUE,
                               !.err = shown.err, !.diffs = shown.diffs]
    /\ UNCHANGED <<machineVars, analyzerVars, nameVars, rm, sd, tl, ka, ga, bk>>

NextDiff == DiffGetHistory \/ DiffGetSnapshot \/ DiffShow

SpecDiff == InitDiff /\ [][NextDiff]_vars

-----------------------------------------------------------------------------
(* The document loop of getActualState over bounded manifests               *)

MaxDocs == 2         \* most documents of a resolved manifest

KindCm == KindKey \o <<" ", "c", "m">>
KindConfigMap == KindKey \o <<" ", "C", "o", "n", "f", "i", "g", "M", "a", "p">>
NameA == NameKey \o <<" ", "a">>
NameB == NameKey \o <<" ", "b">>
NameMixed == NameKey \o <<" ", "A", "_", "b">>
NamespaceN == NamespaceKey \o <<" ", "n">>

\* the documents of the resolved manifests; three of them are written with
\* white space that unicode.IsSpace and the class \s treat differently
ResolverDocuments ==
    { KindCm \o <<"\n">> \o NameA,
      KindCm \o <<"\n">> \o NameB \o <<"\n">> \o NamespaceN,
      KindConfigMap \o <<"\n">> \o NameA,
      KindCm \o <<"\n">> \o NameMixed,
      KindCm,
      NameA,
      <<"U+00A0">> \o KindCm \o <<"\n">> \o NameA \o <<"U+0085", "U+000B">>,
      KindKey \o <<"\f", "c", "m", "\n">> \o NameKey \o <<"U+00A0", "a">>,
      KindKey \o <<"U+000B", "c", "m", "\n">> \o NameA,
      <<" ">>,
      <<>> }

\* the manifests: up to MaxDocs documents, each on its own lines
ResolverManifests ==
    {Join(docs, JoinSeparator) :
         docs \in UNION {[1..n -> ResolverDocuments] : n \in 1..MaxDocs}}

ResolveStart(manifestContent, namespace) ==
    [manifestContent |-> manifestContent, namespace |-> namespace,
     resources |-> SplitOn(manifestContent, DocSeparator, <<>>),
     k |-> 0, gets |-> <<>>, actualStates |-> <<>>,
     done |-> FALSE, result |-> <<>>, err |-> ""]

InitResolve ==
    /\ MachineInit
    /\ AnalyzerIdle
    /\ NameIdle
    /\ LoaderIdle /\ DiffIdle /\ TimelineIdle /\ ArgsIdle /\ DiffCommandIdle /\ ColumnsIdle
    /\ ga \in {ResolveStart(manifestContent, namespace) :
                   manifestContent \in ResolverManifests,
                   namespace \in {<<>>, <<"n", "s">>}}

\* one iteration of the loop over the documents; getOk is the outcome of
\* the kubectl get the iteration runs when it reaches it
ResolveNext ==
    /\ ~ga.done
    /\ ga.k < Len(ga.resources)
    /\ \E getOk \in BOOLEAN :
          LET added == ResolveDocument(ga.resources[ga.k + 1], ga.namespace, getOk)
          IN  ga' = [ga EXCEPT !.k = ga.k + 1,
                               !.actualStates = ga.actualStates \o added,
                               !.gets = Append(ga.gets,
                                               IF added = <<>> THEN "none"
                                               ELSE IF getOk THEN "ok" ELSE "failed")]
    /\ UNCHANGED <<machineVars, analyzerVars, nameVars, rm, sd, tl, ka, dc, bk>>

\* the return statement: the entries joined, and a nil error
ResolveReturn ==
    /\ ~ga.done
    /\ ga.k = Len(ga.resources)
    /\ ga' = [ga EXCEPT !.done = TRUE,
                        !.result = Join(ga.actualStates, JoinSeparator),
                        !.err = ""]
    /\ UNCHANGED <<machineVars, analyzerVars, nameVars, rm, sd, tl, ka, dc, bk>>

NextResolve == ResolveNext \/ ResolveReturn

SpecResolve == InitResolve /\ [][NextResolve]_vars

-----------------------------------------------------------------------------
(* Properties of the invocation flows (Spec)                                *)

SnapshotKeyOf(p) == ObjectKey(inv[p].snapshotName, inv[p].namespace)
HistoryKeyOf(p) == ObjectKey(inv[p].historyName, inv[p].namespace)

\* the store calls the invocation has issued, as <<operation, kind>>
CallOps(p) == [k \in 1..Len(inv[p].calls) |-> <<inv[p].calls[k].op, inv[p].calls[k].kind>>]

AllCallsOk(p) == \A k \in 1..Len(inv[p].calls) : inv[p].calls[k].ok

IssuedHistoryCreate(p) ==
    \E k \in 1..Len(inv[p].calls) :
        inv[p].calls[k].op = "create" /\ inv[p].calls[k].kind = "History"

\* the non-blank lines of the text are all `<resource> unchanged`
OnlyUnchangedLines(out) ==
    LET ls == ScanLines(out) IN
    /\ Len(ls) >= 1
    /\ \A k \in 1..Len(ls) :
           Len(Fields(ls[k])) = 2 /\ Fields(ls[k])[2] = unchanged

RECURSIVE TextLines(_)
\* the lines of a text, of any length: the characters between newlines,
\* without the carriage return before a newline
TextLines(text) ==
    IF text = <<>> THEN <<>>
    ELSE LET l == TakeLine(text) IN
         IF Len(l) = Len(text) THEN <<DropCR(l)>>
         ELSE <<DropCR(l)>> \o TextLines(SubSeq(text, Len(l) + 2, Len(text)))

\* the text has a line `<resource> created`
HasCreatedLine(out) ==
    LET ls == TextLines(out) IN
    \E k \in 1..Len(ls) : Len(Fields(ls[k])) = 2 /\ Fields(ls[k])[2] = created

\* the setting of the end-to-end scenarios: an apply with the client, not
\* a dry run, a non-empty manifest, the Snapshot created, a zero exit
\* status, and no store call failed so far
ScenarioApply(p) ==
    /\ inv[p].cmd = "apply" /\ inv[p].client /\ ~inv[p].dryRun
    /\ inv[p].manifestContent # <<>>
    /\ inv[p].ran /\ inv[p].exitOk
    /\ Len(inv[p].calls) >= 1 /\ AllCallsOk(p)

\* C1: a History is added to the store only by an invocation whose wrapped
\* command exited with status zero and whose captured output the analyser
\* flags as changed; an invocation whose output the analyser does not flag
\* never issues a History create.
C1_HistoryOnlyOnChanges ==
    /\ [](\A p \in Procs :
              inv[p].ran /\ ~analyzeKubectlOutput(inv[p].stdout).hasChanges
                  => ~IssuedHistoryCreate(p))
    /\ [][\A k \in DOMAIN histories' \ DOMAIN histories :
              \E p \in Procs :
                  /\ inv[p].pc = "createHistory"
                  /\ inv[p].ran /\ inv[p].exitOk
                  /\ analyzeKubectlOutput(inv[p].stdout).hasChanges
                  /\ \E c \in 1..Len(analyzeKubectlOutput(inv[p].stdout).changes) :
                         analyzeKubectlOutput(inv[p].stdout).changes[c].Operation # Unchanged]_vars

C1_Witness ==
    \E p \in Procs :
        /\ inv[p].pc = "historyGet"
        /\ HistoryKeyOf(p) \in DOMAIN histories
        /\ analyzeKubectlOutput(inv[p].stdout).hasChanges

\* C2: scenario A.  In an apply of the scenario setting whose output has
\* only `unchanged` lines, no History create is issued, the Snapshot is in
\* phase NoChanges after the status update, and when the invocation ends
\* it has issued create, get, update and delete of its Snapshot and the
\* Snapshot is no longer in the store.
C2_ScenarioA ==
    \A p \in Procs :
        ScenarioApply(p) /\ OnlyUnchangedLines(inv[p].stdout) =>
            /\ ~IssuedHistoryCreate(p)
            /\ inv[p].pc \in {"cleanupGet", "cleanupUpdate", "cleanupDelete", "done"}
            /\ inv[p].pc = "cleanupDelete" =>
                   /\ SnapshotKeyOf(p) \in DOMAIN snapshots
                   /\ snapshots[SnapshotKeyOf(p)].phase = "NoChanges"
            /\ inv[p].pc = "done" =>
                   /\ CallOps(p) = << <<"create", "Snapshot">>, <<"get", "Snapshot">>,
                                      <<"update", "Snapshot">>, <<"delete", "Snapshot">> >>
                   /\ SnapshotKeyOf(p) \notin DOMAIN snapshots

C2_Witness ==
    \E p \in Procs :
        /\ ScenarioApply(p) /\ OnlyUnchangedLines(inv[p].stdout)
        /\ inv[p].pc = "done"
        /\ Len(inv[p].calls) = 4

\* C3: scenario B.  In an apply of the scenario setting whose output has a
\* `created` line, when the invocation ends exactly one History has been
\* created, its snapshot reference is the name of the Snapshot created
\* before the command, and that Snapshot is Completed with a non-empty
\* history reference equal to the name of the History.
C3_ScenarioB ==
    \A p \in Procs :
        ScenarioApply(p) /\ HasCreatedLine(inv[p].stdout) /\ inv[p].pc = "done" =>
            /\ CallOps(p) = << <<"create", "Snapshot">>, <<"create", "History">>,
                               <<"get", "Snapshot">>, <<"update", "Snapshot">> >>
            /\ inv[p].calls[1].key = SnapshotKeyOf(p)
            /\ HistoryKeyOf(p) \in DOMAIN histories
            /\ histories[HistoryKeyOf(p)].snapshotRef = inv[p].calls[1].key[2]
            /\ SnapshotKeyOf(p) \in DOMAIN snapshots
            /\ snapshots[SnapshotKeyOf(p)].phase = "Completed"
            /\ snapshots[SnapshotKeyOf(p)].historyRef # NoName
            /\ snapshots[SnapshotKeyOf(p)].historyRef = inv[p].calls[2].key[2]

\* the invocation p takes the step of a successful status update
UpdatesSnapshot(p) ==
    /\ inv[p].pc \in {"historyUpdate", "cleanupUpdate"}
    /\ inv'[p].pc # inv[p].pc
    /\ inv'[p].calls[Len(inv'[p].calls)].ok

\* C4: every change of the phase of a stored Snapshot is Pending ->
\* Completed or Pending -> NoChanges, and the status updates of
\* createHistory and cleanupSnapshot only ever succeed on a Snapshot that
\* is Pending.
C4_PhaseTransitions ==
    [][/\ \A k \in DOMAIN snapshots \cap DOMAIN snapshots' :
              snapshots'[k].phase # snapshots[k].phase =>
                  /\ snapshots[k].phase = "Pending"
                  /\ snapshots'[k].phase \in {"Completed", "NoChanges"}
       /\ \A p \in Procs :
              UpdatesSnapshot(p) => snapshots[SnapshotKeyOf(p)].phase = "Pending"
       /\ \A k \in DOMAIN snapshots' \ DOMAIN snapshots :
              snapshots'[k].phase = "Pending"]_vars

C4_Witness ==
    /\ \E k \in DOMAIN snapshots : snapshots[k].phase = "Completed"
    /\ \E k \in DOMAIN snapshots : snapshots[k].phase = "NoChanges"

\* C5: an invocation whose wrapped command exited with a non-zero status
\* ends with the error, without an analysis result, having issued no store
\* call after the command, and the Snapshot it created is stored as it was
\* created: Pending, without history reference.
C5_SubprocessFailed ==
    \A p \in Procs :
        inv[p].ran /\ ~inv[p].exitOk =>
            /\ inv[p].pc = "done"
            /\ inv[p].err = "kubectl"
            /\ ~inv[p].hasChanges /\ inv[p].changes = <<>>
            /\ \A k \in 1..Len(inv[p].calls) :
                   k = 1 /\ CallOps(p)[k] = <<"create", "Snapshot">>
            /\ inv[p].snapshotName # NoName =>
                   /\ SnapshotKeyOf(p) \in DOMAIN snapshots
                   /\ snapshots[SnapshotKeyOf(p)] =
                          [manifests |-> inv[p].manifestContent,
                           targetNamespace |-> inv[p].namespace,
                           phase |-> "Pending", appliedAt |-> 0,
                           historyRef |-> NoName, message |-> ""]

C5_Witness ==
    \E p \in Procs :
        /\ inv[p].pc = "done" /\ inv[p].ran /\ ~inv[p].exitOk
        /\ inv[p].snapshotName # NoName
        /\ analyzeKubectlOutput(inv[p].stdout).hasChanges

\* C6: an invocation that got past the reading of the manifest ends only
\* after the wrapped command has run, and it returns success exactly when
\* the command exited with status zero, whatever the store calls returned.
C6_RecordingNeverBlocks ==
    \A p \in Procs :
        /\ inv[p].pc = "done" /\ inv[p].err # "read" =>
               /\ inv[p].ran
               /\ (inv[p].err = "") <=> inv[p].exitOk
        /\ inv[p].pc \notin {"idle", "done", "createSnapshot", "kubectl"} =>
               inv[p].ran /\ inv[p].exitOk /\ inv[p].err = ""

C6_Witness ==
    \E p \in Procs :
        /\ inv[p].pc = "done" /\ inv[p].ran /\ inv[p].exitOk /\ inv[p].err = ""
        /\ \E k \in 1..Len(inv[p].calls) : ~inv[p].calls[k].ok
        /\ ~inv[p].calls[1].ok

-----------------------------------------------------------------------------
(* Properties of analyzeKubectlOutput (SpecAnalyze)                         *)

\* the step is an iteration of the scanner loop
ScanStep == anCursor' = anCursor + 1

\* the tokens of the line the iteration works on
LineParts == Fields(TrimSpace(CurrentLine))

IsUnchangedLine(parts) == Len(parts) = 2 /\ parts[2] = unchanged

ContainsChangeWord(line) ==
    Contains(line, created) \/ Contains(line, configured) \/ Contains(line, deleted)

\* the loop `for scanner.Scan()` has ended
AnalysisDone == anCursor = Len(ScanLines(anOutput))

\* the text has a line that contains created, configured or deleted
HasChangeWordLine(text) ==
    LET ls == TextLines(text) IN \E k \in 1..Len(ls) : ContainsChangeWord(ls[k])

\* C7: a line `<resource> unchanged` leaves the flag as it is, and when
\* the analysis has ended the flag is set if any line of the text contains
\* created, configured or deleted.
C7_AnyLineContaining ==
    /\ [][ScanStep /\ IsUnchangedLine(LineParts) => anHasChanges' = anHasChanges]_vars
    /\ [](AnalysisDone /\ HasChangeWordLine(anOutput) => anHasChanges)

IsQuoted(tok) == Len(tok) >= 2 /\ tok[1] = "\"" /\ tok[Len(tok)] = "\""

\* C8: a line of three tokens `<resource> "<name>" deleted` adds the
\* change Deleted on the cleaned identifier <resource>/<name>.
C8_QuotedDelete ==
    [][ScanStep /\ Len(LineParts) = 3 /\ IsQuoted(LineParts[2]) /\ LineParts[3] = deleted =>
           anChanges' =
               Append(anChanges,
                      [Resource  |-> cleanResourceName(
                                         LineParts[1] \o <<"/">>
                                             \o SubSeq(LineParts[2], 2, Len(LineParts[2]) - 1)),
                       Operation |-> Deleted])]_vars

FourOperations == {Created, Configured, Unchanged, Deleted}

\* C9: every emitted ResourceChange has one of the four operations, and a
\* line of two tokens whose second token is none of the four words adds no
\* ResourceChange.
C9_FourOperations ==
    /\ [](\A k \in 1..Len(anChanges) : anChanges[k].Operation \in FourOperations)
    /\ [][ScanStep /\ Len(LineParts) = 2
              /\ ToLower(LineParts[2]) \notin {created, configured, unchanged, deleted}
              => anChanges' = anChanges]_vars

-----------------------------------------------------------------------------
(* Properties of isValidKubernetesName (SpecName)                           *)

\* the resource-name rule, on the characters of the name
NameRule(s) ==
    /\ Len(s) >= 1
    /\ Len(s) <= 253
    /\ \A i \in 1..Len(s) : s[i] \in LowerLetters \cup Digits \cup {"-", "."}
    /\ s[1] \in LowerLetters \cup Digits
    /\ s[Len(s)] \in LowerLetters \cup Digits

\* C10: isValidKubernetesName returns true exactly for the names that obey
\* the resource-name rule; it accepts my-name.example and a, and rejects
\* the empty name, My_Name, -leading, trailing- and every name of 254
\* characters.
C10_NameRule ==
    nmDone =>
        /\ nmResult = NameRule(nmName)
        /\ nmName \in {ExampleMyName, <<"a">>} => nmResult
        /\ nmName \in {<<>>, ExampleMixedCase, ExampleLeading, ExampleTrailing} => ~nmResult
        /\ Len(nmName) = 254 => ~nmResult

C10_Witness ==
    /\ nmDone /\ nmResult
    /\ Len(nmName) = 253

-----------------------------------------------------------------------------
(* readManifestFiles: C11, C12                                              *)

\* the path has a segment ".."
HasParentSegment(path) ==
    \E k \in 1..Len(SplitOn(path, PathSeparator, <<>>)) :
        SplitOn(path, PathSeparator, <<>>)[k] = ParentDir

\* the cleaned path contains a parent-directory segment or is absolute
InvalidPath(path) == HasParentSegment(Clean(path)) \/ IsAbs(Clean(path))

\* C11: a list with a path whose cleaned form contains a parent-directory
\* segment or is absolute makes readManifestFiles fail; a call that fails
\* with an invalid-path error has opened no file, not even the files named
\* by earlier valid paths; and a path is rejected as invalid only if its
\* cleaned form contains a parent-directory segment or is absolute.
C11_InvalidPathOpensNothing ==
    rm.done =>
        /\ (\E k \in 1..Len(rm.filenames) : InvalidPath(rm.filenames[k])) => rm.err # ""
        /\ rm.err = "invalid" => rm.opened = <<>> /\ InvalidPath(rm.errFile)

\* the contents of the files of a list, in input order
ContentsOf(filenames) ==
    [k \in 1..Len(filenames) |-> FileSystem[Clean(filenames[k])].content]

NonEmptyText(text) == text # <<>>

\* C12: a successful readManifestFiles returns the non-empty contents in
\* input order with the separator exactly once between two successive
\* ones: none before the first, none after the last, none on account of an
\* empty file; for a single file the result is the content of the file.
C12_SeparatedContents ==
    rm.done /\ rm.err = "" =>
        /\ rm.content = Join(SelectSeq(ContentsOf(rm.filenames), NonEmptyText), FileSeparator)
        /\ Len(rm.filenames) = 1 => rm.content = ContentsOf(rm.filenames)[1]

-----------------------------------------------------------------------------
(* Manifest loading in runApply: C20                                        *)

\* the file is rejected, does not exist, or cannot be read
UnloadableFile(path) ==
    \/ InvalidPath(path)
    \/ Contains(Clean(path), ParentDir)
    \/ Clean(path) \notin DOMAIN FileSystem
    \/ FileSystem[Clean(path)].dir

\* C20: when a file of the list is rejected, does not exist or cannot be
\* read, readManifestFiles gives runApply an error and the empty text, not
\* the contents read before the failure, and the invocation ends with the
\* error before it has issued a store call, created a Snapshot or run the
\* wrapped command.
C20_ManifestAllOrNothing ==
    \A p \in Procs :
        LET i == inv[p]
        IN  (i.cmd = "apply" /\ \E k \in 1..Len(i.filenames) : UnloadableFile(i.filenames[k]))
                => /\ i.pc = "done"
                   /\ i.err = "read"
                   /\ i.content = <<>>
                   /\ i.manifestContent = <<>>
                   /\ i.snapshotName = NoName
                   /\ i.calls = <<>>
                   /\ ~i.ran

\* an apply invocation has failed on the second file after reading the first
C20_Witness ==
    \E p \in Procs :
        /\ inv[p].cmd = "apply"
        /\ inv[p].err = "read"
        /\ Len(inv[p].filenames) = 2
        /\ ~UnloadableFile(inv[p].filenames[1])
        /\ FileSystem[Clean(inv[p].filenames[1])].content # <<>>
        /\ UnloadableFile(inv[p].filenames[2])

-----------------------------------------------------------------------------
(* Properties of showDiff (SpecShowDiff): C13                               *)

\* what a parsed document says once the stripped fields are left out: the
\* scalar of each top-level key but status, the keys that carry a mapping,
\* and the fields of each mapping but the stripped fields of metadata
NormalFacts(doc) ==
    LET obj == Unmarshal(doc)
        kept == DOMAIN obj \ {StatusField}
    IN  {<<key, "scalar", <<>>, obj[key].scalar>> : key \in {k \in kept : ~obj[k].nested}}
            \cup {<<key, "mapping", <<>>, <<>>>> : key \in {k \in kept : obj[k].nested}}
            \cup UNION {{<<key, "field", field, obj[key].fields[field]>> :
                             field \in {f \in DOMAIN obj[key].fields :
                                            key = MetadataField => f \notin UnwantedMetadataFields}} :
                        key \in {k \in kept : obj[k].nested}}

\* C13: for two documents that parse and have the same normalized form
\* (the same document twice, or documents differing only in status and in
\* the stripped metadata fields), showDiff returns no error and the diff
\* has neither an insertion nor a deletion.
C13_EqualNormalFormsNoDiff ==
    (/\ sd.done
     /\ sd.before.wellFormed /\ sd.after.wellFormed
     /\ NormalFacts(sd.before) = NormalFacts(sd.after))
        => /\ sd.err = ""
           /\ \A k \in 1..Len(sd.diffs) : sd.diffs[k].op = DiffEqual

\* showDiff has compared a document carrying a uid and a status with one
\* that carries neither and is otherwise the same
C13_Witness ==
    /\ sd.done
    /\ sd.err = ""
    /\ MetadataField \in DOMAIN Unmarshal(sd.before)
    /\ Unmarshal(sd.before)[MetadataField].nested
    /\ UidField \in DOMAIN Unmarshal(sd.before)[MetadataField].fields
    /\ StatusField \in DOMAIN Unmarshal(sd.before)
    /\ MetadataField \in DOMAIN Unmarshal(sd.after)
    /\ Unmarshal(sd.after)[MetadataField].nested
    /\ UidField \notin DOMAIN Unmarshal(sd.after)[MetadataField].fields
    /\ StatusField \notin DOMAIN Unmarshal(sd.after)
    /\ NormalFacts(sd.before) = NormalFacts(sd.after)
    /\ sd.diffs # <<>>

-----------------------------------------------------------------------------
(* Properties of the timeline (SpecTimeline): C14                           *)

\* C14: the timeline lists the History records in ascending order of
\* creation timestamp, and records with equal creation timestamps stand in
\* the order of the listing.
C14_StableAscending ==
    tl.pc \in {"select", "done"} /\ tl.err = "" =>
        \A i, j \in 1..Len(tl.rows) :
            i < j => \/ tl.rows[i].time < tl.rows[j].time
                     \/ tl.rows[i].time = tl.rows[j].time /\ tl.rows[i].id < tl.rows[j].id

-----------------------------------------------------------------------------
(* createHistory and cleanupSnapshot (Spec): C15, C16, C17                  *)

\* the invocation is in createHistory
InCreateHistory(p) == inv[p].pc \in {"createHistory", "historyGet", "historyUpdate"}

\* C15: when createHistory is called by the delete or the patch flow, with
\* a snapshot name under which no Snapshot is stored, the History is
\* persisted and createHistory returns no error, having issued the Create
\* of the History and the Get of the Snapshot and nothing else; no step of
\* it creates or changes a Snapshot.
C15_HistoryWithoutSnapshot ==
    /\ [](\A p \in Procs :
              (/\ inv[p].cmd \in {"delete", "patch"}
               /\ inv[p].pc = "done"
               /\ Len(inv[p].calls) >= 1
               /\ inv[p].calls[1].ok)
                  => /\ SnapshotKeyOf(p) \notin DOMAIN snapshots
                     /\ inv[p].historyErr = ""
                     /\ HistoryKeyOf(p) \in DOMAIN histories
                     /\ histories[HistoryKeyOf(p)].snapshotRef = inv[p].snapshotName
                     /\ CallOps(p) = << <<"create", "History">>, <<"get", "Snapshot">> >>
                     /\ ~inv[p].calls[2].ok)
    /\ [][\A p \in Procs :
              (inv[p].cmd \in {"delete", "patch"} /\ InCreateHistory(p))
                  => snapshots' = snapshots]_vars

\* a delete invocation has recorded a History while Snapshots of earlier
\* apply invocations are stored
C15_Witness ==
    \E p \in Procs :
        /\ inv[p].cmd = "delete"
        /\ inv[p].pc = "done"
        /\ Len(inv[p].calls) = 2
        /\ inv[p].calls[1].ok
        /\ HistoryKeyOf(p) \in DOMAIN histories
        /\ inv[p].historyErr = ""
        /\ snapshots # <<>>


\* the invocation has called cleanupSnapshot: the calls it issued after the
\* Create of its Snapshot are the calls of cleanupSnapshot
CalledCleanup(p) ==
    /\ inv[p].cmd = "apply"
    /\ inv[p].exitOk /\ ~inv[p].hasChanges
    /\ inv[p].client /\ inv[p].snapshotName # NoName
    /\ inv[p].pc = "done"

CleanupCalls(p) == SubSeq(CallOps(p), 2, Len(inv[p].calls))

\* C16: cleanupSnapshot issues no write when its Get reports no Snapshot;
\* when the Get finds the Snapshot, the status update and the Delete are
\* both issued, the Delete also after a failed update; and the invocation
\* ends without an error whatever the outcome of the two.
C16_CleanupBestEffort ==
    \A p \in Procs :
        CalledCleanup(p) =>
            /\ inv[p].err = ""
            /\ Len(inv[p].calls) >= 2
            /\ inv[p].calls[2].op = "get"
            /\ ~inv[p].calls[2].ok => CleanupCalls(p) = << <<"get", "Snapshot">> >>
            /\ inv[p].calls[2].ok =>
                   /\ CleanupCalls(p) = << <<"get", "Snapshot">>, <<"update", "Snapshot">>,
                                           <<"delete", "Snapshot">> >>
                   /\ \A k \in 3..4 : inv[p].calls[k].key = inv[p].calls[2].key
                   /\ (inv[p].calls[3].ok /\ ~inv[p].calls[4].ok)
                          => /\ SnapshotKeyOf(p) \in DOMAIN snapshots
                             /\ snapshots[SnapshotKeyOf(p)].phase = "NoChanges"
                   /\ inv[p].calls[4].ok => SnapshotKeyOf(p) \notin DOMAIN snapshots

\* cleanupSnapshot has deleted the Snapshot after its status update failed
C16_Witness ==
    \E p \in Procs :
        /\ CalledCleanup(p)
        /\ Len(inv[p].calls) = 4
        /\ ~inv[p].calls[3].ok
        /\ inv[p].calls[4].ok
        /\ SnapshotKeyOf(p) \notin DOMAIN snapshots


\* an apply invocation that created its Snapshot has ended
EndedWithSnapshot(p) ==
    /\ inv[p].cmd = "apply"
    /\ inv[p].pc = "done"
    /\ Len(inv[p].calls) >= 1
    /\ inv[p].calls[1] = StoreCall("create", "Snapshot", inv[p].calls[1].key, TRUE)

CreatedSnapshotKey(p) == inv[p].calls[1].key

\* the Snapshot is Completed and linked to the History of the invocation
Finalized(p) ==
    /\ CreatedSnapshotKey(p) \in DOMAIN snapshots
    /\ snapshots[CreatedSnapshotKey(p)].phase = "Completed"
    /\ snapshots[CreatedSnapshotKey(p)].historyRef = inv[p].historyName
    /\ HistoryKeyOf(p) \in DOMAIN histories
    /\ histories[HistoryKeyOf(p)].snapshotRef = CreatedSnapshotKey(p)[2]

\* the Snapshot is marked NoChanges or deleted
Discarded(p) ==
    \/ CreatedSnapshotKey(p) \notin DOMAIN snapshots
    \/ snapshots[CreatedSnapshotKey(p)].phase = "NoChanges"

\* the Snapshot is stored as it was created
LeftPending(p) ==
    /\ CreatedSnapshotKey(p) \in DOMAIN snapshots
    /\ snapshots[CreatedSnapshotKey(p)].phase = "Pending"
    /\ snapshots[CreatedSnapshotKey(p)].historyRef = NoName

\* C17 as stated: when an apply invocation that created a Snapshot ends,
\* the Snapshot has been finalized or discarded, and not both.
C17_FinalizedOrDiscarded ==
    \A p \in Procs :
        EndedWithSnapshot(p) =>
            /\ Finalized(p) \/ Discarded(p)
            /\ ~(Finalized(p) /\ Discarded(p))

\* the store calls the invocation issued after the Create of its Snapshot
\* all succeeded
LaterCallsOk(p) == \A k \in 2..Len(inv[p].calls) : inv[p].calls[k].ok

\* C17 as amended: when an apply invocation that created a Snapshot ends,
\* the Snapshot is finalized, discarded or left Pending, exactly one of the
\* three; it is left Pending when the wrapped command failed; when the
\* wrapped command succeeded and the store calls that followed succeeded,
\* it is finalized if the output reported changes and discarded if not; it
\* is finalized only after reported changes and discarded only without.
C17_FinalizedDiscardedOrPending ==
    \A p \in Procs :
        EndedWithSnapshot(p) =>
            /\ Finalized(p) \/ Discarded(p) \/ LeftPending(p)
            /\ ~(Finalized(p) /\ Discarded(p))
            /\ ~(Finalized(p) /\ LeftPending(p))
            /\ ~(Discarded(p) /\ LeftPending(p))
            /\ ~inv[p].exitOk => LeftPending(p) /\ Len(inv[p].calls) = 1
            /\ (inv[p].exitOk /\ LaterCallsOk(p)) =>
                   /\ Len(inv[p].calls) > 1
                   /\ inv[p].hasChanges => Finalized(p)
                   /\ ~inv[p].hasChanges => Discarded(p)
            /\ Finalized(p) => inv[p].exitOk /\ inv[p].hasChanges
            /\ Discarded(p) => inv[p].exitOk /\ ~inv[p].hasChanges

\* an apply invocation has finalized its Snapshot while the Snapshot of an
\* earlier invocation is left Pending
C17_Witness ==
    \E p \in Procs :
        /\ EndedWithSnapshot(p)
        /\ Finalized(p)
        /\ \E key \in DOMAIN snapshots :
               key # CreatedSnapshotKey(p) /\ snapshots[key].phase = "Pending"

-----------------------------------------------------------------------------
(* Properties of the argument vectors (SpecArgs): C18                       *)

CommandWord(cmd) ==
    IF cmd = "apply" THEN ApplyCommand
    ELSE IF cmd = "delete" THEN DeleteCommand
    ELSE PatchCommand

\* the flag stands in the vector followed by its value
HasFlagValue(v, flag, value) ==
    \E k \in 1..(Len(v) - 1) : v[k] = flag /\ v[k + 1] = value

\* the word stands in the vector
HasWord(v, word) == \E k \in 1..Len(v) : v[k] = word

\* the number of words the flags with a non-default value take
FlagWordCount(f) ==
    2 * Len(f.filenames)
        + (IF f.dryRun THEN 1 ELSE 0)
        + (IF f.selector # <<>> THEN 2 ELSE 0)
        + (IF f.namespace # <<>> THEN 2 ELSE 0)
        + (IF f.all THEN 1 ELSE 0)
        + Len(f.ignoreNotFound)
        + (IF f.patchType # StrategicType THEN 2 ELSE 0)

\* C18 as stated: the vector is the command name, then the flags whose
\* value is not the default, each with its value, then the positional
\* arguments.
C18_CommandFlagsPositionals ==
    ka.built =>
        LET v == ka.kubectlArgs
        IN  /\ v[1] = CommandWord(ka.cmd)
            /\ Len(v) = 1 + FlagWordCount(ka) + Len(ka.args)
            /\ SubSeq(v, Len(v) - Len(ka.args) + 1, Len(v)) = ka.args
            /\ \A k \in 1..Len(ka.filenames) : HasFlagValue(v, FlagF, ka.filenames[k])
            /\ ka.dryRun => HasWord(v, FlagDryRunClient)
            /\ ka.selector # <<>> => HasFlagValue(v, FlagL, ka.selector)
            /\ ka.namespace # <<>> => HasFlagValue(v, FlagN, ka.namespace)
            /\ ka.all => HasWord(v, FlagAll)
            /\ \A k \in 1..Len(ka.ignoreNotFound) :
                   HasWord(v, FlagIgnoreNotFound \o ka.ignoreNotFound[k])
            /\ ka.patchType # StrategicType => HasFlagValue(v, FlagType, ka.patchType)

\* the words "-f <file>" of the files, in order
FileWords(filenames) ==
    [k \in 1..(2 * Len(filenames)) |->
        IF k % 2 = 1 THEN FlagF ELSE filenames[k \div 2]]

NamespaceWords(namespace) == IF namespace = <<>> THEN <<>> ELSE <<FlagN, namespace>>

\* C18 as amended: apply gives `apply`, -f per file, --dry-run=client if
\* set, -n if given, then the positional arguments; delete gives `delete`,
\* the positional arguments, then -f per file, -l if given, -n if given,
\* --all if set, --ignore-not-found=<v> per value; patch gives `patch`, its
\* first argument, -p, its second argument, --type and the type (also when
\* it is the default), then -n if given, and no further argument.
C18_VectorPerCommand ==
    ka.built =>
        LET v == ka.kubectlArgs
        IN  /\ ka.cmd = "apply" =>
                   v = <<ApplyCommand>> \o FileWords(ka.filenames)
                           \o (IF ka.dryRun THEN <<FlagDryRunClient>> ELSE <<>>)
                           \o NamespaceWords(ka.namespace) \o ka.args
            /\ ka.cmd = "delete" =>
                   v = <<DeleteCommand>> \o ka.args \o FileWords(ka.filenames)
                           \o (IF ka.selector = <<>> THEN <<>> ELSE <<FlagL, ka.selector>>)
                           \o NamespaceWords(ka.namespace)
                           \o (IF ka.all THEN <<FlagAll>> ELSE <<>>)
                           \o [k \in 1..Len(ka.ignoreNotFound) |->
                                   FlagIgnoreNotFound \o ka.ignoreNotFound[k]]
            /\ ka.cmd = "patch" =>
                   v = <<PatchCommand, ka.args[1], FlagP, ka.args[2], FlagType, ka.patchType>>
                           \o NamespaceWords(ka.namespace)

\* the vector of a delete command with files, a namespace and positional
\* arguments has been built
C18_Witness ==
    /\ ka.built
    /\ ka.cmd = "delete"
    /\ ka.args # <<>>
    /\ ka.filenames # <<>>
    /\ ka.namespace # <<>>
    /\ ka.all

-----------------------------------------------------------------------------
(* Properties of diff <history-id> (SpecDiff): C19                          *)

\* the History named on the command line and the Snapshot it refers to
NamedHistoryStored == NameKeyOf(dc.historyID) \in DOMAIN histories
ReferredSnapshotStored ==
    /\ NamedHistoryStored
    /\ NameKeyOf(histories[NameKeyOf(dc.historyID)].snapshotRef) \in DOMAIN snapshots

\* C19: the diff command ends with an error and without a diff when the
\* named History or the Snapshot it refers to is not stored; the records it
\* works on are the stored ones; and the diff it renders is the normalized
\* diff of the Snapshot's manifest and the History's manifest.
C19_NormalizedDiffById ==
    dc.pc = "done" =>
        /\ (~NamedHistoryStored \/ ~ReferredSnapshotStored) => dc.err # "" /\ ~dc.rendered
        /\ dc.err # "" => ~dc.rendered /\ dc.diffs = <<>>
        /\ dc.rendered =>
               /\ dc.history = histories[NameKeyOf(dc.historyID)]
               /\ dc.snapshot.manifests =
                      snapshots[NameKeyOf(dc.history.snapshotRef)].manifests
               /\ \E checks \in showDiffClock(dc.snapshot.manifests, dc.history.manifests) :
                      dc.diffs = showDiff(dc.snapshot.manifests, dc.history.manifests,
                                          checks).diffs

-----------------------------------------------------------------------------
(* analyzeKubectlOutput, its flag and its list (SpecAnalyze): C21           *)

ChangeOperations == {Created, Configured, Deleted}

\* the line is one the analyzer records: two tokens, or three tokens or
\* more with one of the four literal words among them
RecognizedLine(parts) ==
    \/ Len(parts) = 2
    \/ Len(parts) >= 3 /\ \E i \in 1..Len(parts) : IsOperationWord(parts[i])

\* the lines of the text that the analyzer records
RecognizedLines(text) ==
    LET ls == TextLines(text)
    IN  {k \in 1..Len(ls) : RecognizedLine(Fields(TrimSpace(ls[k])))}

\* C21: the flag is true exactly when the list holds an entry whose
\* operation is Created, Configured or Deleted; when the analysis has
\* ended the list has one entry for each recognized line of the text;
\* every recognized line adds one entry at the end of the list, also when
\* an equal entry is already there, and every other line, a blank one
\* included, adds none.
C21_FlagIffChangeEntry ==
    /\ [](anHasChanges <=>
              \E k \in 1..Len(anChanges) : anChanges[k].Operation \in ChangeOperations)
    /\ [](AnalysisDone => Len(anChanges) = Cardinality(RecognizedLines(anOutput)))
    /\ [][ScanStep =>
              IF RecognizedLine(LineParts)
              THEN /\ Len(anChanges') = Len(anChanges) + 1
                   /\ SubSeq(anChanges', 1, Len(anChanges)) = anChanges
              ELSE anChanges' = anChanges]_vars

-----------------------------------------------------------------------------
(* Properties of getActualState (SpecResolve): C22                          *)

\* the text has the key at position i
KeyAt(doc, key, i) ==
    /\ i + Len(key) - 1 <= Len(doc)
    /\ SubSeq(doc, i, i + Len(key) - 1) = key

\* the position of the first character after the key at i that is not
\* white space (Len(doc) + 1 when there is none)
ValueStart(doc, key, i) ==
    CHOOSE j \in (i + Len(key))..(Len(doc) + 1) :
        /\ \A h \in (i + Len(key))..(j - 1) : doc[h] \in RegexpSpace
        /\ j = Len(doc) + 1 \/ doc[j] \notin RegexpSpace

\* the key at i is followed by a value made of the given characters
HasValueAt(doc, key, i, chars) ==
    /\ KeyAt(doc, key, i)
    /\ ValueStart(doc, key, i) <= Len(doc)
    /\ doc[ValueStart(doc, key, i)] \in chars

\* the characters a document is written with
DocChars(doc) == {doc[h] : h \in 1..Len(doc)}

HasValue(doc, key, chars) == \E i \in 1..Len(doc) : HasValueAt(doc, key, i, chars)

\* the value of the first occurrence of the key that has one: the longest
\* run of the given characters at its start
ValueOf(doc, key, chars) ==
    LET i == CHOOSE h \in 1..Len(doc) :
                 /\ HasValueAt(doc, key, h, chars)
                 /\ \A g \in 1..(h - 1) : ~HasValueAt(doc, key, g, chars)
        j == ValueStart(doc, key, i)
        e == CHOOSE h \in j..Len(doc) :
                 /\ \A g \in j..h : doc[g] \in chars
                 /\ h = Len(doc) \/ doc[h + 1] \notin chars
    IN  SubSeq(doc, j, e)

DocKind(doc) == ValueOf(doc, KindKey, WordChars)
DocName(doc) == ValueOf(doc, NameKey, DocChars(doc) \ RegexpSpace)

\* a non-empty document with a kind and a name that both pass the
\* resource-name rule
Resolvable(doc) ==
    /\ doc # <<>>
    /\ HasValue(doc, KindKey, WordChars)
    /\ HasValue(doc, NameKey, DocChars(doc) \ RegexpSpace)
    /\ NameRule(DocKind(doc))
    /\ NameRule(DocName(doc))

\* the k-th document of the manifest, without the white space around it
DocumentAt(k) == TrimSpace(ga.resources[k])

RECURSIVE ExpectedStates(_)
\* the entries of the documents k, k + 1, ... of the manifest
ExpectedStates(k) ==
    IF k > Len(ga.resources) THEN <<>>
    ELSE (IF ~Resolvable(DocumentAt(k)) THEN <<>>
          ELSE IF ga.gets[k] = "ok"
          THEN <<LiveState(DocKind(DocumentAt(k)), DocName(DocumentAt(k)),
                           ResourceNamespace(DocumentAt(k), ga.namespace))>>
          ELSE <<DocumentAt(k)>>)
             \o ExpectedStates(k + 1)

\* C22: getActualState returns no error, and its result is, in document
\* order and joined by the separator, one entry for each non-empty
\* document whose kind and name pass the resource-name rule (the live
\* state when its query succeeds, the document itself when it fails) and
\* nothing for any other document; a failed query does not end the loop.
C22_OneEntryPerResolvable ==
    /\ ga.err = ""
    /\ ga.done =>
           /\ Len(ga.gets) = Len(ga.resources)
           /\ \A k \in 1..Len(ga.resources) :
                  Resolvable(DocumentAt(k)) <=> ga.gets[k] \in {"ok", "failed"}
           /\ ga.result = Join(ExpectedStates(1), JoinSeparator)

\* a failed query on the first document, a successful one on the second
C22_Witness ==
    /\ ga.done
    /\ ga.gets = <<"failed", "ok">>
    /\ ga.result = DocumentAt(1) \o JoinSeparator
                       \o LiveState(<<"c", "m">>, <<"b">>, <<"n">>)

-----------------------------------------------------------------------------
(* The two steps of the link between Snapshot and History (Spec): C23       *)

\* the store call the step of p has just issued
IssuedCall(p, op, kind, ok) ==
    /\ Len(inv'[p].calls) = Len(inv[p].calls) + 1
    /\ LET call == inv'[p].calls[Len(inv'[p].calls)]
       IN  call.op = op /\ call.kind = kind /\ call.ok = ok

\* C23: when the Create of the History fails, no Snapshot is modified and
\* createHistory returns the failure without a further store call; when
\* the Create has succeeded and the status update of the Snapshot fails,
\* the History stays stored, the Snapshot stays Pending with an empty
\* history reference, createHistory returns the failure and the command
\* itself still ends without an error.
C23_TwoStepLink ==
    [][\A p \in Procs :
           /\ IssuedCall(p, "create", "History", FALSE) =>
                  /\ snapshots' = snapshots
                  /\ inv'[p].historyErr = "create"
                  /\ inv'[p].pc = "done"
                  /\ inv'[p].err = ""
           /\ IssuedCall(p, "update", "Snapshot", FALSE) /\ inv[p].pc = "historyUpdate" =>
                  /\ histories' = histories
                  /\ HistoryKeyOf(p) \in DOMAIN histories'
                  /\ histories'[HistoryKeyOf(p)].snapshotRef = inv[p].snapshotName
                  /\ snapshots' = snapshots
                  /\ SnapshotKeyOf(p) \in DOMAIN snapshots'
                  /\ snapshots'[SnapshotKeyOf(p)].phase = "Pending"
                  /\ snapshots'[SnapshotKeyOf(p)].historyRef = NoName
                  /\ inv'[p].historyErr = "update"
                  /\ inv'[p].pc = "done"
                  /\ inv'[p].err = ""]_vars

\* an apply has ended after a failed status update: its History is stored
\* and its Snapshot is Pending
C23_Witness ==
    \E p \in Procs :
        /\ inv[p].pc = "done"
        /\ inv[p].cmd = "apply"
        /\ inv[p].historyErr = "update"
        /\ CallOps(p) = << <<"create", "Snapshot">>, <<"create", "History">>,
                          <<"get", "Snapshot">>, <<"update", "Snapshot">> >>
        /\ HistoryKeyOf(p) \in DOMAIN histories
        /\ SnapshotKeyOf(p) \in DOMAIN snapshots
        /\ snapshots[SnapshotKeyOf(p)].phase = "Pending"

-----------------------------------------------------------------------------
(* The parse errors of showDiff (SpecShowDiff): C24                         *)

\* C24: a before document that cannot be parsed makes showDiff fail with
\* the error naming `before`, whatever the after document is; an after
\* document that cannot be parsed, next to a before document that can,
\* makes it fail with the error naming `after`; no diff is printed in
\* either case, and these are the only cases with a parse error.
C24_ParseErrorNamesSide ==
    sd.done =>
        /\ ~sd.before.wellFormed => sd.err = "parse before" /\ sd.diffs = <<>>
        /\ sd.before.wellFormed /\ ~sd.after.wellFormed =>
               sd.err = "parse after" /\ sd.diffs = <<>>
        /\ sd.before.wellFormed /\ sd.after.wellFormed => sd.err = "" /\ sd.diffs # <<>>

\* neither document can be parsed: the error names `before`
C24_Witness ==
    /\ sd.done
    /\ ~sd.before.wellFormed
    /\ ~sd.after.wellFormed
    /\ sd.err = "parse before"
    /\ sd.diffs = <<>>

-----------------------------------------------------------------------------
(* Properties of the columns of a timeline row (SpecColumns): C25           *)

\* the identifiers of the entries with the given operation, in list order
ResourcesWith(operation) ==
    LET picked == SelectSeq(bk.changes, LAMBDA c : c.Operation = operation)
    IN  [k \in 1..Len(picked) |-> picked[k].Resource]

\* a column as the claim describes it: the string itself when it has at
\* most 33 characters, its first 30 characters and `...` otherwise
ShownColumn(str) ==
    IF Len(str) <= ColumnLimit THEN Bytes(str)
    ELSE Bytes(SubSeq(str, 1, ColumnKept) \o Ellipsis)

\* C25: the Created, Modified and Deleted columns hold the identifiers of
\* the entries with operation Created, Configured and Deleted, in list
\* order, and no other entry; each column is the identifiers joined by
\* `, `, printed as it is when it has at most 33 characters and cut to its
\* first 30 characters followed by `...` otherwise.
C25_ColumnsWithinWidth ==
    bk.done =>
        /\ bk.created = ResourcesWith(Created)
        /\ bk.modified = ResourcesWith(Configured)
        /\ bk.deleted = ResourcesWith(Deleted)
        /\ bk.createdStr = ShownColumn(Join(bk.created, ListSeparator))
        /\ bk.modifiedStr = ShownColumn(Join(bk.modified, ListSeparator))
        /\ bk.deletedStr = ShownColumn(Join(bk.deleted, ListSeparator))

-----------------------------------------------------------------------------
(* The History records are written once (Spec): C26                         *)

\* the store calls of the given operation and kind the invocation issued
CallsOf(p, op, kind) ==
    {k \in 1..Len(inv[p].calls) : inv[p].calls[k].op = op /\ inv[p].calls[k].kind = kind}

\* C26: an invocation issues at most one Create of a History and no
\* update or delete of a History, and a History that is stored stays
\* stored as it is in every step of every flow.
C26_HistoryWrittenOnce ==
    /\ [](\A p \in Procs :
              /\ Cardinality(CallsOf(p, "create", "History")) <= 1
              /\ \A k \in 1..Len(inv[p].calls) :
                     inv[p].calls[k].kind = "History" => inv[p].calls[k].op = "create")
    /\ [][\A key \in DOMAIN histories :
              key \in DOMAIN histories' /\ histories'[key] = histories[key]]_vars

\* an invocation has tried to create the History that an earlier
\* invocation of the same second had stored
C26_Witness ==
    \E p \in Procs :
        /\ started = 2
        /\ inv[p].pc = "done"
        /\ \E k \in CallsOf(p, "create", "History") :
               /\ ~inv[p].calls[k].ok
               /\ inv[p].calls[k].key \in DOMAIN histories
               /\ histories[inv[p].calls[k].key].manifests # inv[p].beforeState
        /\ inv[p].cmd = "delete"

-----------------------------------------------------------------------------
(* Dry run and missing client (Spec): C27                                   *)

\* an apply that is a dry run or has no client
NotRecording(i) == i.cmd = "apply" /\ (i.dryRun \/ ~i.client)

\* C27: an apply that is a dry run, or whose client could not be
\* constructed, issues no store call and changes no Snapshot and no
\* History in any of its steps, whatever the command prints; once its
\* manifest files are read, it ends only after the wrapped command has
\* been executed.
C27_NoRecordingNoWrite ==
    /\ [](\A p \in Procs :
              NotRecording(inv[p]) =>
                  /\ inv[p].calls = <<>>
                  /\ inv[p].pc = "done" /\ inv[p].err # "read" => inv[p].ran)
    /\ [][\A p \in Procs :
              NotRecording(inv'[p]) /\ inv'[p] # inv[p] =>
                  snapshots' = snapshots /\ histories' = histories]_vars

\* a dry run with a manifest and a client has ended after a command that
\* printed a change: nothing was recorded
C27_Witness ==
    \E p \in Procs :
        /\ inv[p].pc = "done"
        /\ inv[p].cmd = "apply"
        /\ inv[p].dryRun
        /\ inv[p].client
        /\ inv[p].manifestContent # <<>>
        /\ inv[p].ran /\ inv[p].exitOk
        /\ inv[p].hasChanges
        /\ inv[p].calls = <<>>
        /\ snapshots = <<>> /\ histories = <<>>

-----------------------------------------------------------------------------
(* Completed Snapshots and their Histories (Spec): C28                      *)

\* the key of the History a stored Snapshot refers to
ReferredHistoryKey(key) == <<key[1], snapshots[key].historyRef>>

\* C28: in every reachable state, a stored Snapshot in phase Completed
\* has a history reference that is not empty and names a stored History
\* whose snapshot reference is the name of that Snapshot.
C28_CompletedHasHistory ==
    \A key \in DOMAIN snapshots :
        snapshots[key].phase = "Completed" =>
            /\ snapshots[key].historyRef # NoName
            /\ ReferredHistoryKey(key) \in DOMAIN histories
            /\ histories[ReferredHistoryKey(key)].snapshotRef = key[2]

\* a Completed Snapshot is stored, and a later invocation has ended
C28_Witness ==
    /\ started = 2
    /\ \A p \in Procs : inv[p].pc = "idle"
    /\ \E key \in DOMAIN snapshots :
           /\ snapshots[key].phase = "Completed"
           /\ ReferredHistoryKey(key) \in DOMAIN histories
    /\ \E key \in DOMAIN snapshots : snapshots[key].phase = "Pending"

-----------------------------------------------------------------------------
(* Two applies of the same second (SpecOverlap): C30                        *)

\* the invocation has created the Snapshot stored under the key
CreatedSnapshot(p, key) ==
    \E k \in 1..Len(inv[p].calls) :
        inv[p].calls[k] = StoreCall("create", "Snapshot", key, TRUE)

\* the key of the store call the step of p has just issued
IssuedKey(p) == inv'[p].calls[Len(inv'[p].calls)].key

\* the step of q is the Create of a Snapshot
IssuedSnapshotCreate(q) ==
    IssuedCall(q, "create", "Snapshot", TRUE) \/ IssuedCall(q, "create", "Snapshot", FALSE)

\* an invocation whose Create of the Snapshot failed issues no other store
\* call, and an invocation gets, updates or deletes only a Snapshot that
\* it has created
OnlyOwnSnapshot ==
    \A q \in Procs :
        /\ Len(inv[q].calls) >= 1 /\ inv[q].calls[1].kind = "Snapshot"
               /\ ~inv[q].calls[1].ok
               => Len(inv[q].calls) = 1 /\ inv[q].snapshotName = NoName
        /\ \A k \in 1..Len(inv[q].calls) :
               inv[q].calls[k].kind = "Snapshot" /\ inv[q].calls[k].op # "create" =>
                   \E h \in 1..(k - 1) :
                       inv[q].calls[h] =
                           StoreCall("create", "Snapshot", inv[q].calls[k].key, TRUE)

\* a stored Snapshot is changed or removed only by a step of the
\* invocation that created it
ChangedByCreator ==
    \A key \in DOMAIN snapshots :
        key \notin DOMAIN snapshots' \/ snapshots'[key] # snapshots[key] =>
            \E q \in Procs : inv'[q] # inv[q] /\ CreatedSnapshot(q, key)

\* C30 (as stated): when an invocation derives the snapshot identifier
\* under which another invocation has created its Snapshot, its own Create
\* fails; it then creates no History and issues no update or delete, and
\* an invocation finalizes or discards only the Snapshot it created.
C30_SecondCreationFails ==
    /\ [][\A p, q \in Procs :
              /\ p # q
              /\ IssuedSnapshotCreate(q)
              /\ CreatedSnapshot(p, IssuedKey(q))
              => IssuedCall(q, "create", "Snapshot", FALSE)]_vars
    /\ []OnlyOwnSnapshot
    /\ [][ChangedByCreator]_vars

\* C30 (amended): when an invocation derives the snapshot identifier under
\* which a Snapshot is stored, its own Create fails; it then creates no
\* History and issues no update or delete, and an invocation finalizes or
\* discards only the Snapshot it created.  The Create succeeds when the
\* invocation that had created a Snapshot under that identifier has
\* discarded it already.
C30_CreationFailsWhileStored ==
    /\ [][\A q \in Procs :
              IssuedSnapshotCreate(q) /\ IssuedKey(q) \in DOMAIN snapshots
                  => IssuedCall(q, "create", "Snapshot", FALSE)]_vars
    /\ []OnlyOwnSnapshot
    /\ [][ChangedByCreator]_vars

\* two applies of the same second and the same namespace: the first has
\* created the Snapshot and completed it, the second has run a command
\* that printed a change and has ended with its failed Create as its only
\* store call
C30_Witness ==
    \E p, q \in Procs :
        /\ p # q
        /\ inv[q].pc = "done"
        /\ inv[q].hasChanges
        /\ Len(inv[q].calls) = 1
        /\ inv[q].calls[1].kind = "Snapshot" /\ ~inv[q].calls[1].ok
        /\ CreatedSnapshot(p, inv[q].calls[1].key)
        /\ inv[q].calls[1].key \in DOMAIN snapshots
        /\ snapshots[inv[q].calls[1].key].phase = "Completed"
        /\ histories # <<>>

-----------------------------------------------------------------------------
(* The manifest text of a History (Spec): C29                               *)

\* the manifest is one document with the kind ConfigMap and a valid name
StandardKindManifest(text) ==
    /\ text = ConfigMapManifest
    /\ DocKind(TrimSpace(text)) = <<"C", "o", "n", "f", "i", "g", "M", "a", "p">>
    /\ NameRule(DocName(TrimSpace(text)))

\* C29: for a manifest whose kind is written in the standard capitalised
\* form and whose name is valid, getActualState returns a resolved
\* document, whether the query succeeds or fails, and the History that an
\* apply of this manifest records carries a manifest text that is not
\* empty.
C29_StandardKindResolved ==
    \A p \in Procs :
        inv[p].cmd = "apply" /\ StandardKindManifest(inv[p].manifestContent) =>
            /\ \A getOk \in BOOLEAN :
                   getActualState(inv[p].manifestContent, inv[p].namespace,
                                  <<getOk>>) # <<>>
            /\ \A k \in CallsOf(p, "create", "History") :
                   inv[p].calls[k].ok => histories[inv[p].calls[k].key].manifests # <<>>

====
